---- MODULE Spec2Model ----
(***************************************************************************)
(* State-machine model of the manus-machina orchestration and resilience   *)
(* components: Saga, CircuitBreaker, RetryPolicy, GuardrailEngine, Crew.   *)
(* Every component has its own variables, its own actions and its own      *)
(* specification; a component's specification leaves the variables of the  *)
(* other components at their initial value.                                *)
(***************************************************************************)
EXTENDS Integers, Sequences, FiniteSets, TLC

\* Python's None.  Results, names and times are positive integers.
None == 0

\* reversed(seq), as used by Saga._compensate
reversed_fwd(s) == s

RECURSIVE reversed(_)
reversed(s) == IF s = <<>> THEN <<>> ELSE Append(reversed(Tail(s)), Head(s))

\* A dict is the function from its keys to their values: {} and d[key] = value
EmptyDict == [k \in {} |-> None]

DictSet(d, key, value) ==
    [k \in DOMAIN d \cup {key} |-> IF k = key THEN value ELSE d[k]]

(***************************************************************************)
(*                                  Saga                                   *)
(***************************************************************************)
VARIABLES
    saga,       \* the Saga object: steps, status, context, error
    sagaRun,    \* the frame of Saga.execute: pc, loop position, completed_steps, outcome
    sagaLog     \* history of the forward and compensating actions invoked

sagaVars == <<saga, sagaRun, sagaLog>>

\* Largest number of steps added to the saga
MaxSteps == 3
\* Number of distinct results a forward action may return
MaxResult == 2

SagaResults == 1..MaxResult

\* The names given to steps; add_step takes any name, also one already used
SagaNames == {"a", "b"}

\* SagaStep(name, action, compensation); in the history a step is referred
\* to by its position in saga.steps
SagaStep(name) ==
    [name |-> name, status |-> "pending", result |-> None, error |-> "none"]

\* f"{step.name}_result"
result_key_name(name) == name

result_key(name) == name \o "_result"

SagaInit ==
    /\ saga = [steps |-> <<>>, status |-> "pending",
               context |-> EmptyDict, error |-> None]
    /\ sagaRun = [pc |-> "build", cur |-> 0, completed_steps |-> <<>>,
                  order |-> <<>>, pos |-> 0,
                  raised |-> "none", raised_step |-> 0, returned |-> None]
    /\ sagaLog = <<>>

SagaEvent(e, i) == [ev |-> e, step |-> i]

\* Saga.add_step
SagaAddStep(name) ==
    /\ sagaRun.pc = "build"
    /\ Len(saga.steps) < MaxSteps
    /\ saga' = [saga EXCEPT !.steps = Append(@, SagaStep(name))]
    /\ UNCHANGED <<sagaRun, sagaLog>>

\* The status a step gets when its forward action has returned
StepStatusAfterAction_running == "running"

StepStatusAfterAction == "completed"

\* Variant: the outer handler marks the saga failed whatever its status
OuterExcept_always(status) == "failed"

\* Variant: the outer handler leaves the status as it finds it
OuterExcept_keep(status) == status

\* The outer handler of Saga.execute: except Exception -> status FAILED unless COMPENSATED
OuterExcept(status) == IF status # "compensated" THEN "failed" ELSE status

\* The error raised out of _compensate when a compensating action raises
CompensationFailure_failed == "SagaFailedError"

CompensationFailure == "SagaCompensationError"

\* Saga.execute up to the first await: merge the initial context, mark the saga
\* running and start the first step (or complete at once when there is no step)
SagaExecute(ic) ==
    /\ sagaRun.pc = "build"
    /\ LET ctx == IF ic # None THEN DictSet(saga.context, "input", ic)
                  ELSE saga.context
       IN IF saga.steps = <<>>
          THEN /\ saga' = [saga EXCEPT !.context = ctx, !.status = "completed"]
               /\ sagaRun' = [sagaRun EXCEPT !.pc = "done", !.returned = None]
               /\ UNCHANGED sagaLog
          ELSE /\ saga' = [saga EXCEPT !.context = ctx, !.status = "running",
                                       !.steps[1].status = "running"]
               /\ sagaRun' = [sagaRun EXCEPT !.pc = "action", !.cur = 1]
               /\ sagaLog' = Append(sagaLog, SagaEvent("action", 1))

\* step.action returned r: record the result, complete the step, go on to the
\* next step or finish the saga
SagaActionReturn(r) ==
    /\ sagaRun.pc = "action"
    /\ LET i == sagaRun.cur
           done == [saga EXCEPT !.context = DictSet(@, result_key(saga.steps[i].name), r),
                                !.steps[i].result = r,
                                !.steps[i].status = StepStatusAfterAction]
       IN IF i < Len(saga.steps)
          THEN /\ saga' = [done EXCEPT !.steps[i + 1].status = "running"]
               /\ sagaRun' = [sagaRun EXCEPT !.cur = i + 1,
                                 !.completed_steps = Append(@, i)]
               /\ sagaLog' = sagaLog \o <<SagaEvent("action_return", i),
                                          SagaEvent("action", i + 1)>>
          ELSE /\ saga' = [done EXCEPT !.status = "completed"]
               /\ sagaRun' = [sagaRun EXCEPT !.pc = "done",
                                 !.completed_steps = Append(@, i),
                                 !.returned = done.steps[Len(done.steps)].result]
               /\ sagaLog' = Append(sagaLog, SagaEvent("action_return", i))

\* step.action raised: fail the step and the saga, enter _compensate and start
\* the first compensation (or finish at once when nothing had completed)
SagaActionRaise ==
    /\ sagaRun.pc = "action"
    /\ LET i == sagaRun.cur
           failed == [saga EXCEPT !.steps[i].status = "failed",
                                  !.steps[i].error = "action",
                                  !.error = i]
           order == reversed(sagaRun.completed_steps)
       IN IF order = <<>>
          THEN /\ saga' = [failed EXCEPT !.status = OuterExcept("compensated")]
               /\ sagaRun' = [sagaRun EXCEPT !.pc = "done", !.order = order,
                                 !.raised = "SagaFailedError", !.raised_step = i]
               /\ sagaLog' = Append(sagaLog, SagaEvent("action_raise", i))
          ELSE /\ saga' = [failed EXCEPT !.status = "compensating",
                                         !.steps[order[1]].status = "compensating"]
               /\ sagaRun' = [sagaRun EXCEPT !.pc = "comp", !.order = order, !.pos = 1]
               /\ sagaLog' = sagaLog \o <<SagaEvent("action_raise", i),
                                          SagaEvent("comp", order[1])>>

\* step.compensation returned: the step is compensated; start the next
\* compensation or finish with SagaFailedError naming the failed step
SagaCompReturn ==
    /\ sagaRun.pc = "comp"
    /\ LET k == sagaRun.order[sagaRun.pos]
           comp == [saga EXCEPT !.steps[k].status = "compensated"]
       IN IF sagaRun.pos < Len(sagaRun.order)
          THEN LET n == sagaRun.order[sagaRun.pos + 1]
               IN /\ saga' = [comp EXCEPT !.steps[n].status = "compensating"]
                  /\ sagaRun' = [sagaRun EXCEPT !.pos = @ + 1]
                  /\ sagaLog' = Append(sagaLog, SagaEvent("comp", n))
          ELSE /\ saga' = [comp EXCEPT !.status = OuterExcept("compensated")]
               /\ sagaRun' = [sagaRun EXCEPT !.pc = "done",
                                 !.raised = "SagaFailedError",
                                 !.raised_step = sagaRun.cur]
               /\ UNCHANGED sagaLog

\* step.compensation raised: SagaCompensationError leaves _compensate and
\* execute through the outer handler
SagaCompRaise ==
    /\ sagaRun.pc = "comp"
    /\ LET k == sagaRun.order[sagaRun.pos]
       IN /\ saga' = [saga EXCEPT !.steps[k].error = "compensation",
                                  !.status = OuterExcept(saga.status)]
          /\ sagaRun' = [sagaRun EXCEPT !.pc = "done",
                            !.raised = CompensationFailure, !.raised_step = k]
          /\ sagaLog' = Append(sagaLog, SagaEvent("comp_raise", k))

(***************************************************************************)
(*                         Properties of the Saga                          *)
(***************************************************************************)
SagaLogIdx(e) == {p \in 1..Len(sagaLog) : sagaLog[p].ev = e}

\* The steps whose compensation was invoked, in the order of invocation
SagaCompensated == LET IsComp(e) == e.ev = "comp"
                       comps == SelectSeq(sagaLog, IsComp)
                   IN [p \in 1..Len(comps) |-> comps[p].step]

\* <<k-1, ..., 1>>
SagaDownFrom(k) == [p \in 1..(k - 1) |-> k - p]

\* C1: when the forward action of a step raises, the compensations are invoked
\* in strict reverse order of completion, only for steps that completed before
\* the failed one and never for the failed step itself; and when every
\* compensation returns, every completed step ends compensated, the saga ends
\* compensated and execute raises SagaFailedError naming the failed step.
C1_ReverseCompensation ==
    /\ \A a, b \in SagaLogIdx("comp") :
          a < b => sagaLog[a].step > sagaLog[b].step
    /\ \A a \in SagaLogIdx("comp") :
          \E f \in SagaLogIdx("action_raise") :
             /\ f < a
             /\ sagaLog[a].step < sagaLog[f].step
             /\ \E r \in SagaLogIdx("action_return") :
                   r < f /\ sagaLog[r].step = sagaLog[a].step
    /\ \A f \in SagaLogIdx("action_raise") :
          (sagaRun.pc = "done" /\ SagaLogIdx("comp_raise") = {}) =>
             LET k == sagaLog[f].step
             IN /\ SagaCompensated = SagaDownFrom(k)
                /\ \A j \in 1..(k - 1) : saga.steps[j].status = "compensated"
                /\ saga.steps[k].status = "failed"
                /\ saga.status = "compensated"
                /\ sagaRun.raised = "SagaFailedError"
                /\ sagaRun.raised_step = k

\* A saga of three steps A, B, C whose third action raised and was rolled back
C1_Witness ==
    /\ sagaRun.pc = "done"
    /\ Len(saga.steps) = 3
    /\ \E f \in SagaLogIdx("action_raise") : sagaLog[f].step = 3
    /\ SagaCompensated = <<2, 1>>
    /\ saga.status = "compensated"

\* C7: when a compensating action raises during rollback, execute raises
\* SagaCompensationError (not SagaFailedError) and the saga status is not
\* compensated, neither then nor afterwards.
C7_CompensationFailure ==
    SagaLogIdx("comp_raise") # {} =>
        /\ sagaRun.pc = "done"
        /\ sagaRun.raised = "SagaCompensationError"
        /\ sagaRun.raised # "SagaFailedError"
        /\ saga.status # "compensated"

\* The compensation of the second completed step returned and the
\* compensation of the first one raised
C7_Witness ==
    /\ sagaRun.pc = "done"
    /\ \E p \in SagaLogIdx("comp_raise") : sagaLog[p].step = 1
    /\ Len(SagaCompensated) = 2

\* C31: when the compensation of step k raises, the reverse walk stops at k:
\* no compensation is invoked afterwards, the steps completed before k were
\* never compensated and keep status completed, the steps completed after k
\* are compensated, k stays compensating, and the saga status ends failed.
C31_CompensationRaiseStops ==
    \A p \in SagaLogIdx("comp_raise") :
        LET k == sagaLog[p].step
        IN /\ p = Len(sagaLog)
           /\ sagaRun.pc = "done"
           /\ sagaLog[p - 1] = SagaEvent("comp", k)
           /\ \A j \in 1..(k - 1) :
                 /\ saga.steps[j].status = "completed"
                 /\ \A q \in SagaLogIdx("comp") : sagaLog[q].step # j
           /\ \A j \in (k + 1)..(sagaRun.cur - 1) :
                 saga.steps[j].status = "compensated"
           /\ saga.steps[k].status = "compensating"
           /\ saga.steps[k].error = "compensation"
           /\ saga.status = "failed"

\* Steps 1 and 2 completed, the action of step 3 raised and the compensation
\* of step 2 raised: step 1 is still completed
C31_Witness ==
    /\ Len(saga.steps) = 3
    /\ sagaRun.pc = "done"
    /\ sagaRun.cur = 3
    /\ sagaLog[Len(sagaLog)] = SagaEvent("comp_raise", 2)
    /\ saga.steps[1].status = "completed"
    /\ saga.steps[2].status = "compensating"
    /\ saga.status = "failed"

\* C35: whenever execute has returned or raised, the saga status is
\* completed, compensated or failed, never pending, running or compensating;
\* it is completed exactly when execute returned normally and compensated
\* exactly when SagaFailedError was raised.
C35_FinalStatus ==
    sagaRun.pc = "done" =>
        /\ saga.status \in {"completed", "compensated", "failed"}
        /\ saga.status = "completed" <=> sagaRun.raised = "none"
        /\ saga.status = "compensated" <=> sagaRun.raised = "SagaFailedError"
        /\ saga.status = "failed" <=> sagaRun.raised = "SagaCompensationError"

\* The second action raised, the first step was compensated, SagaFailedError
C35_Witness ==
    /\ sagaRun.pc = "done"
    /\ Len(saga.steps) = 2
    /\ sagaRun.cur = 2
    /\ saga.steps[2].status = "failed"
    /\ saga.steps[1].status = "compensated"
    /\ saga.status = "compensated"
    /\ sagaRun.raised = "SagaFailedError"

\* The first action raised with nothing to compensate: compensated as well
C35_WitnessNothingCompleted ==
    /\ sagaRun.pc = "done"
    /\ saga.steps # <<>>
    /\ sagaRun.completed_steps = <<>>
    /\ saga.status = "compensated"
    /\ sagaRun.raised = "SagaFailedError"

\* A compensation raised: failed, and the error is not SagaFailedError
C35_WitnessFailed ==
    /\ sagaRun.pc = "done"
    /\ saga.status = "failed"
    /\ sagaRun.raised = "SagaCompensationError"

\* C8: forward actions are invoked in declared order without overlap: the
\* action of step i+1 is invoked right after the action of step i returned and
\* while step i has status completed; while an action runs it is the only
\* running step, all earlier steps are completed and all later ones pending;
\* and after an action raised no further action is invoked and the later
\* steps stay pending.
C8_ForwardOrder ==
    /\ \A p \in SagaLogIdx("action") :
          IF sagaLog[p].step = 1 THEN p = 1
          ELSE /\ p > 1
               /\ sagaLog[p - 1] = SagaEvent("action_return", sagaLog[p].step - 1)
    /\ \A p, q \in SagaLogIdx("action") :
          p < q => sagaLog[p].step < sagaLog[q].step
    /\ sagaRun.pc = "action" =>
          \A j \in 1..Len(saga.steps) :
             saga.steps[j].status =
                IF j < sagaRun.cur THEN "completed"
                ELSE IF j = sagaRun.cur THEN "running" ELSE "pending"
    /\ \A f \in SagaLogIdx("action_raise") :
          /\ \A p \in SagaLogIdx("action") : p < f
          /\ \A j \in (sagaLog[f].step + 1)..Len(saga.steps) :
                saga.steps[j].status = "pending"

\* The second of three steps is running after the first one completed
C8_Witness ==
    /\ sagaRun.pc = "action"
    /\ sagaRun.cur = 2
    /\ Len(saga.steps) = 3
    /\ saga.steps[1].status = "completed"

\* The first of three steps raised; the other two were never started
C8_WitnessRaise ==
    /\ sagaRun.pc = "done"
    /\ Len(saga.steps) = 3
    /\ \E f \in SagaLogIdx("action_raise") : sagaLog[f].step = 1

\* Every forward action returned and execute returned
SagaSucceeded == sagaRun.pc = "done" /\ sagaRun.raised = "none"

\* What a fully successful execute leaves apart from the context: every
\* step completed, the saga completed, the last step's result returned (None
\* without steps), no compensation invoked
SagaCompletedAll ==
    /\ \A j \in 1..Len(saga.steps) : saga.steps[j].status = "completed"
    /\ saga.status = "completed"
    /\ sagaRun.returned = IF saga.steps = <<>> THEN None
                          ELSE saga.steps[Len(saga.steps)].result
    /\ SagaLogIdx("comp") = {}
    /\ Cardinality(SagaLogIdx("action_return")) = Len(saga.steps)

\* The last step that has the same name as step j
SagaLastNamed(j) ==
    CHOOSE k \in j..Len(saga.steps) :
       /\ saga.steps[k].name = saga.steps[j].name
       /\ \A m \in (k + 1)..Len(saga.steps) : saga.steps[m].name # saga.steps[j].name

\* C22 as stated: when every forward action succeeds, every step ends
\* completed, the saga status is completed, the context holds
\* '<step>_result' for every step with that step's result, execute returns
\* the last step's result (None for a saga with no steps), and no
\* compensation is invoked.
C22_AllSucceed ==
    SagaSucceeded =>
       /\ SagaCompletedAll
       /\ \A j \in 1..Len(saga.steps) :
             LET key == saga.steps[j].name \o "_result"
             IN /\ key \in DOMAIN saga.context
                /\ saga.context[key] = saga.steps[j].result

\* C22 as amended: as above, the context holding under '<step>_result' the
\* result of the last step of that name.
C22_AllSucceedLastOfName ==
    SagaSucceeded =>
       /\ SagaCompletedAll
       /\ \A j \in 1..Len(saga.steps) :
             LET key == saga.steps[j].name \o "_result"
             IN /\ key \in DOMAIN saga.context
                /\ saga.context[key] = saga.steps[SagaLastNamed(j)].result

\* Steps a, b, a returned 1, 2, 2: the context holds a_result = 2 and
\* b_result = 2 next to the initial context, and execute returned 2
C22_Witness ==
    /\ SagaSucceeded
    /\ Len(saga.steps) = 3
    /\ saga.steps[1].name = "a" /\ saga.steps[1].result = 1
    /\ saga.steps[2].name = "b" /\ saga.steps[2].result = 2
    /\ saga.steps[3].name = "a" /\ saga.steps[3].result = 2
    /\ saga.context["a_result"] = 2
    /\ saga.context["b_result"] = 2
    /\ "input" \in DOMAIN saga.context
    /\ sagaRun.returned = 2

\* A saga without steps returned None at once
C22_WitnessNoSteps ==
    /\ SagaSucceeded
    /\ saga.steps = <<>>
    /\ saga.status = "completed"
    /\ sagaRun.returned = None

(***************************************************************************)
(*                             CircuitBreaker                              *)
(***************************************************************************)
VARIABLES
    cbConfig,   \* CircuitBreakerConfig: failure_threshold, success_threshold, timeout_seconds
    cb,         \* the CircuitBreaker object: state, consecutive counters, timestamps, metrics
    cbNow,      \* datetime.utcnow()
    cbInflight, \* calls suspended in "await func(...)"
    cbInvoked,  \* history: how often the wrapped function was invoked
    cbRun,      \* history: failures of a configured kind since the last success or reset()
    cbHist      \* history: the last operation, with the breaker as it was before it,
                \* the calls let through since the breaker became HALF_OPEN, the
                \* exceptions of no configured kind so far, the state the last
                \* call let through found, whether that call is the operation before

cbVars == <<cbConfig, cb, cbNow, cbInflight, cbInvoked, cbRun, cbHist>>

\* Largest failure_threshold and success_threshold
MaxThreshold == 2
\* Largest timeout_seconds
MaxTimeout == 2
\* Last instant of the clock
MaxTime == 3
\* Largest number of calls of CircuitBreaker.call
MaxCalls == 4
\* Largest number of calls suspended in the wrapped function at once
MaxInflight == 2

CBInit ==
    /\ cbConfig \in [failure_threshold : 1..MaxThreshold,
                     success_threshold : 1..MaxThreshold,
                     timeout_seconds : 1..MaxTimeout]
    /\ cb = [state |-> "closed", failure_count |-> 0, success_count |-> 0,
             last_failure_time |-> None, last_state_change |-> 1,
             total_calls |-> 0, total_failures |-> 0,
             total_successes |-> 0, total_rejected |-> 0]
    /\ cbNow = 1
    /\ cbInflight = 0
    /\ cbInvoked = 0
    /\ cbRun = 0
    /\ cbHist = [ev |-> "init", pre |-> cb, now |-> cbNow, invoked |-> cbInvoked,
                 probes |-> 0, others |-> 0, found |-> "", after_invoke |-> FALSE]

\* CircuitBreaker._should_attempt_reset
should_attempt_reset_le(c, now) ==
    IF c.last_failure_time = None THEN TRUE
    ELSE now - c.last_failure_time <= cbConfig.timeout_seconds

should_attempt_reset(c, now) ==
    IF c.last_failure_time = None THEN TRUE
    ELSE now - c.last_failure_time >= cbConfig.timeout_seconds

\* CircuitBreaker._transition_to_open
transition_to_open(c, now) ==
    [c EXCEPT !.state = "open", !.last_state_change = now, !.success_count = 0]

\* CircuitBreaker._transition_to_half_open
transition_to_half_open_keep(c, now) ==
    [c EXCEPT !.state = "half_open", !.last_state_change = now]

transition_to_half_open(c, now) ==
    [c EXCEPT !.state = "half_open", !.last_state_change = now,
              !.failure_count = 0, !.success_count = 0]

\* CircuitBreaker._transition_to_closed
transition_to_closed(c, now) ==
    [c EXCEPT !.state = "closed", !.last_state_change = now,
              !.failure_count = 0, !.success_count = 0]

\* CircuitBreaker._on_success
on_success_any_state(c, now) ==
    LET n == [c EXCEPT !.total_successes = @ + 1, !.failure_count = 0,
                       !.success_count = @ + 1]
    IN IF n.success_count >= cbConfig.success_threshold
       THEN transition_to_closed(n, now) ELSE n

on_success_noreset(c, now) ==
    LET n == [c EXCEPT !.total_successes = @ + 1, !.success_count = @ + 1]
    IN IF n.state = "half_open" /\ n.success_count >= cbConfig.success_threshold
       THEN transition_to_closed(n, now) ELSE n

on_success_gt(c, now) ==
    LET n == [c EXCEPT !.total_successes = @ + 1, !.failure_count = 0,
                       !.success_count = @ + 1]
    IN IF n.state = "half_open" /\ n.success_count > cbConfig.success_threshold
       THEN transition_to_closed(n, now) ELSE n

on_success(c, now) ==
    LET n == [c EXCEPT !.total_successes = @ + 1, !.failure_count = 0,
                       !.success_count = @ + 1]
    IN IF n.state = "half_open" /\ n.success_count >= cbConfig.success_threshold
       THEN transition_to_closed(n, now) ELSE n

\* Variant: a failure is not added to total_failures
on_failure_uncounted(c, now) ==
    LET n == [c EXCEPT !.failure_count = @ + 1,
                       !.success_count = 0, !.last_failure_time = now]
    IN IF n.state = "closed"
       THEN IF n.failure_count >= cbConfig.failure_threshold
            THEN transition_to_open(n, now) ELSE n
       ELSE IF n.state = "half_open" THEN transition_to_open(n, now) ELSE n

\* CircuitBreaker._on_failure
on_failure(c, now) ==
    LET n == [c EXCEPT !.total_failures = @ + 1, !.failure_count = @ + 1,
                       !.success_count = 0, !.last_failure_time = now]
    IN IF n.state = "closed"
       THEN IF n.failure_count >= cbConfig.failure_threshold
            THEN transition_to_open(n, now) ELSE n
       ELSE IF n.state = "half_open" THEN transition_to_open(n, now) ELSE n

CBHist(e) == [ev |-> e, pre |-> cb, now |-> cbNow, invoked |-> cbInvoked,
              probes |-> IF cb'.state # "half_open" THEN 0
                         ELSE IF cb.state # "half_open" THEN 1
                         ELSE IF e = "invoke" THEN cbHist.probes + 1
                         ELSE cbHist.probes,
              others |-> IF e = "other" THEN cbHist.others + 1 ELSE cbHist.others,
              found |-> IF e = "invoke" THEN cb.state ELSE cbHist.found,
              after_invoke |-> cbHist.ev = "invoke"]

\* CircuitBreaker.call up to the invocation of the wrapped function: an OPEN
\* breaker either moves to HALF_OPEN and proceeds or rejects the call
CBCall ==
    /\ cb.total_calls < MaxCalls
    /\ LET c == [cb EXCEPT !.total_calls = @ + 1]
       IN IF c.state = "open" /\ ~should_attempt_reset(c, cbNow)
          THEN /\ cb' = [c EXCEPT !.total_rejected = @ + 1]
               /\ cbHist' = CBHist("CircuitBreakerOpenError")
               /\ UNCHANGED <<cbInflight, cbInvoked>>
          ELSE /\ cbInflight < MaxInflight
               /\ cb' = IF c.state = "open" THEN transition_to_half_open(c, cbNow) ELSE c
               /\ cbHist' = CBHist("invoke")
               /\ cbInflight' = cbInflight + 1
               /\ cbInvoked' = cbInvoked + 1
    /\ UNCHANGED <<cbConfig, cbNow, cbRun>>

\* The wrapped function returned
CBReturn ==
    /\ cbInflight > 0
    /\ cb' = on_success(cb, cbNow)
    /\ cbInflight' = cbInflight - 1
    /\ cbRun' = 0
    /\ cbHist' = CBHist("success")
    /\ UNCHANGED <<cbConfig, cbNow, cbInvoked>>

\* The wrapped function raised one of config.expected_exceptions
CBRaise ==
    /\ cbInflight > 0
    /\ cb' = on_failure(cb, cbNow)
    /\ cbInflight' = cbInflight - 1
    /\ cbRun' = cbRun + 1
    /\ cbHist' = CBHist("failure")
    /\ UNCHANGED <<cbConfig, cbNow, cbInvoked>>

\* The wrapped function raised an exception outside config.expected_exceptions:
\* it propagates and neither _on_success nor _on_failure runs
CBRaiseOther ==
    /\ cbInflight > 0
    /\ cbInflight' = cbInflight - 1
    /\ UNCHANGED <<cbConfig, cb, cbNow, cbInvoked, cbRun>>
    /\ cbHist' = CBHist("other")

\* CircuitBreaker.reset
CBReset ==
    /\ cb' = transition_to_closed(cb, cbNow)
    /\ cbRun' = 0
    /\ cbHist' = CBHist("reset")
    /\ UNCHANGED <<cbConfig, cbNow, cbInflight, cbInvoked>>

\* Time passes
CBTick ==
    /\ cbNow < MaxTime
    /\ cbNow' = cbNow + 1
    /\ UNCHANGED <<cbConfig, cb, cbInflight, cbInvoked, cbRun, cbHist>>

(***************************************************************************)
(*                    Properties of the CircuitBreaker                     *)
(***************************************************************************)
\* Whether timeout_seconds had elapsed since the last failure when the last
\* operation took place
CBElapsed == cbHist.now - cbHist.pre.last_failure_time >= cbConfig.timeout_seconds

\* C2: a CLOSED breaker's consecutive-failure counter is the number of
\* failures of a configured kind since the last success (or reset) and stays
\* below failure_threshold; a CLOSED breaker becomes OPEN exactly by the
\* failure that makes this number reach failure_threshold.
C2_OpensAtThreshold ==
    /\ cb.state = "closed" =>
          /\ cb.failure_count = cbRun
          /\ cbRun < cbConfig.failure_threshold
    /\ (cbHist.pre.state = "closed" /\ cbHist.ev # "init") =>
          (cb.state = "open" <=>
              /\ cbHist.ev = "failure"
              /\ cbRun = cbConfig.failure_threshold
              /\ cb.failure_count = cbConfig.failure_threshold)
    /\ (cbHist.pre.state = "closed" /\ cbHist.ev = "failure"
          /\ cbRun < cbConfig.failure_threshold) => cb.state = "closed"

\* failure_threshold = 2: the second failure in a row has just opened the breaker
C2_Witness ==
    /\ cbConfig.failure_threshold = 2
    /\ cbHist.ev = "failure"
    /\ cbHist.pre.state = "closed"
    /\ cb.state = "open"
    /\ cbRun = 2

\* One failure, fewer than failure_threshold = 2, then a success: still CLOSED
C2_WitnessReset ==
    /\ cbConfig.failure_threshold = 2
    /\ cbHist.ev = "success"
    /\ cbHist.pre.state = "closed"
    /\ cbHist.pre.failure_count = 1
    /\ cb.state = "closed"

\* C3: a call on an OPEN breaker before timeout_seconds has elapsed since the
\* last failure raises CircuitBreakerOpenError, does not invoke the wrapped
\* function, adds one to total_rejected and leaves the state, the consecutive
\* counters, total_successes and total_failures unchanged.
C3_RejectWhileOpen ==
    (/\ cbHist.ev \in {"invoke", "CircuitBreakerOpenError"}
     /\ cbHist.pre.state = "open"
     /\ ~CBElapsed) =>
        /\ cbHist.ev = "CircuitBreakerOpenError"
        /\ cbInvoked = cbHist.invoked
        /\ cb.total_rejected = cbHist.pre.total_rejected + 1
        /\ cb.total_calls = cbHist.pre.total_calls + 1
        /\ cb.state = "open"
        /\ cb.failure_count = cbHist.pre.failure_count
        /\ cb.success_count = cbHist.pre.success_count
        /\ cb.total_successes = cbHist.pre.total_successes
        /\ cb.total_failures = cbHist.pre.total_failures

\* A call has just been rejected by an OPEN breaker
C3_Witness ==
    /\ cbHist.ev = "CircuitBreakerOpenError"
    /\ cbHist.pre.state = "open"
    /\ ~CBElapsed
    /\ cb.total_rejected = 1

\* C4: a call on an OPEN breaker once timeout_seconds has elapsed since the
\* last failure moves the breaker to HALF_OPEN with both consecutive counters
\* zero, invokes the wrapped function and is not counted as rejected.
C4_ProbeAfterTimeout ==
    (/\ cbHist.ev \in {"invoke", "CircuitBreakerOpenError"}
     /\ cbHist.pre.state = "open"
     /\ CBElapsed) =>
        /\ cbHist.ev = "invoke"
        /\ cb.state = "half_open"
        /\ cb.failure_count = 0
        /\ cb.success_count = 0
        /\ cbInvoked = cbHist.invoked + 1
        /\ cb.total_rejected = cbHist.pre.total_rejected

\* A call has just moved an OPEN breaker with a non-zero failure counter to HALF_OPEN
C4_Witness ==
    /\ cbHist.ev = "invoke"
    /\ cbHist.pre.state = "open"
    /\ cbHist.pre.failure_count > 0
    /\ CBElapsed
    /\ cb.state = "half_open"

\* C5: in HALF_OPEN the consecutive-success counter stays below
\* success_threshold; the success that makes it reach success_threshold moves
\* the breaker to CLOSED with both consecutive counters zero, an earlier
\* success leaves it HALF_OPEN, and a failure of a configured kind moves it to
\* OPEN whatever the counter was.
C5_HalfOpen ==
    /\ cb.state = "half_open" => cb.success_count < cbConfig.success_threshold
    /\ (cbHist.ev = "success" /\ cbHist.pre.state = "half_open") =>
          IF cbHist.pre.success_count + 1 >= cbConfig.success_threshold
          THEN /\ cb.state = "closed"
               /\ cb.failure_count = 0
               /\ cb.success_count = 0
          ELSE /\ cb.state = "half_open"
               /\ cb.success_count = cbHist.pre.success_count + 1
    /\ (cbHist.ev = "failure" /\ cbHist.pre.state = "half_open") =>
          cb.state = "open"

\* success_threshold = 2: the second success in HALF_OPEN has just closed the breaker
C5_Witness ==
    /\ cbConfig.success_threshold = 2
    /\ cbHist.ev = "success"
    /\ cbHist.pre.state = "half_open"
    /\ cbHist.pre.success_count = 1
    /\ cb.state = "closed"

\* A failure after one success in HALF_OPEN has just reopened the breaker
C5_WitnessReopen ==
    /\ cbHist.ev = "failure"
    /\ cbHist.pre.state = "half_open"
    /\ cbHist.pre.success_count = 1
    /\ cb.state = "open"

\* C29: the state changes only along closed -> open (by a failure), open ->
\* half-open (by a call that is let through), half-open -> closed (by a
\* success), half-open -> open (by a failure) and by reset(), which leaves
\* the breaker closed with both consecutive counters zero, from any state;
\* so, however the calls interleave, an OPEN breaker never becomes CLOSED
\* except through HALF_OPEN or reset(), and a CLOSED one never becomes
\* HALF_OPEN.
C29_Transitions ==
    LET from == cbHist.pre.state
        to == cb.state
    IN /\ cbHist.ev = "reset" =>
             /\ to = "closed"
             /\ cb.failure_count = 0
             /\ cb.success_count = 0
       /\ (cbHist.ev # "reset" /\ from # to) =>
             <<from, cbHist.ev, to>> \in {<<"closed", "failure", "open">>,
                                         <<"open", "invoke", "half_open">>,
                                         <<"half_open", "success", "closed">>,
                                         <<"half_open", "failure", "open">>}

\* A call let through by the half-open breaker was still running when a
\* failure reopened the breaker; it returned and the breaker stayed open
C29_Witness ==
    /\ cbHist.ev = "success"
    /\ cbHist.pre.state = "open"
    /\ cb.state = "open"
    /\ cb.success_count >= cbConfig.success_threshold

\* reset() on an open breaker
C29_WitnessReset ==
    /\ cbHist.ev = "reset"
    /\ cbHist.pre.state = "open"
    /\ cbHist.pre.failure_count > 0
    /\ cb.state = "closed"

\* The half-open breaker closed on a success
C29_WitnessClosed ==
    /\ cbHist.ev = "success"
    /\ cbHist.pre.state = "half_open"
    /\ cb.state = "closed"

\* C32: in HALF_OPEN only a limited number of probe calls is admitted: however
\* the calls interleave, at most success_threshold calls reach the wrapped
\* function between the transition to HALF_OPEN and the next transition out
\* of it.
C32_LimitedProbes ==
    cb.state = "half_open" => cbHist.probes <= cbConfig.success_threshold

\* total_calls is the sum of the three other totals when nothing is in flight
\* and no exception of another kind was raised
CBTotalsAddUp ==
    (cbInflight = 0 /\ cbHist.others = 0) =>
        cb.total_calls = cb.total_successes + cb.total_failures + cb.total_rejected

\* C36 as stated: with no call in flight and no exception outside the
\* configured kinds so far, total_calls is the sum of total_successes,
\* total_failures and total_rejected; a call that raises an exception outside
\* expected_exceptions adds one to total_calls and changes nothing else.
C36_Counters ==
    /\ CBTotalsAddUp
    /\ (cbHist.ev = "other" /\ cbHist.after_invoke) =>
          /\ cb = cbHist.pre
          /\ cb.state = cbHist.found

\* C36 as amended: the totals add up as stated; the raise of an exception
\* outside expected_exceptions changes nothing, and the call it ends has
\* added one to total_calls, and, when it found the breaker OPEN with the
\* timeout elapsed, has moved it to HALF_OPEN with both consecutive counters
\* at zero before the function was invoked.
C36_CountersOpenProbe ==
    /\ CBTotalsAddUp
    /\ cb.total_calls = cb.total_successes + cb.total_failures + cb.total_rejected
                          + cbInflight + cbHist.others
    /\ cbHist.ev = "other" =>
          /\ cb = cbHist.pre
          /\ cbHist.after_invoke =>
                IF cbHist.found = "open"
                THEN /\ cb.state = "half_open"
                     /\ cb.failure_count = 0
                     /\ cb.success_count = 0
                ELSE cb.state = cbHist.found

\* A call found the breaker OPEN after the timeout, probed, and the function
\* raised an exception of no configured kind: the breaker is HALF_OPEN
C36_Witness ==
    /\ cbHist.ev = "other"
    /\ cbHist.after_invoke
    /\ cbHist.found = "open"
    /\ cb.state = "half_open"
    /\ cbInflight = 0
    /\ cb.total_calls = cb.total_successes + cb.total_failures + cb.total_rejected + 1

\* Successes, failures and a rejection, nothing in flight: the totals add up
C36_WitnessTotals ==
    /\ cbInflight = 0
    /\ cbHist.others = 0
    /\ cb.total_successes > 0
    /\ cb.total_failures > 0
    /\ cb.total_rejected > 0

(***************************************************************************)
(*                               RetryPolicy                               *)
(***************************************************************************)
VARIABLES
    rpConfig,   \* RetryConfig
    rp,         \* the RetryPolicy object: its four counters
    rpRun,      \* the frame of RetryPolicy.execute: pc, attempt, last_exception, delays, outcome
    rpHist      \* history of the execute in progress: counters at entry, attempts, delays slept;
                \* and the executes so far that ended by an exception of no configured kind

rpVars == <<rpConfig, rp, rpRun, rpHist>>

\* Largest max_attempts
MaxAttempts == 3
\* Largest base_delay, in seconds
MaxBaseDelay == 2
\* Largest max_delay, in seconds
MaxMaxDelay == 3
\* Largest multiplier
MaxMultiplier == 2
\* Largest number of calls of RetryPolicy.execute
MaxExecutes == 2

Min_first(a, b) == a

Min(a, b) == IF a <= b THEN a ELSE b

Max(a, b) == IF a >= b THEN a ELSE b

\* b ** e
RECURSIVE Pow(_, _)
Pow(b, e) == IF e = 0 THEN 1 ELSE b * Pow(b, e - 1)

\* random.uniform(a, b), sampled at whole seconds: a + (b - a) * random()
Uniform_over(a, b) == Min(a, b)..(Max(a, b) + 1)

Uniform(a, b) == Min(a, b)..Max(a, b)

RPInit ==
    /\ rpConfig \in [max_attempts : 1..MaxAttempts,
                     base_delay : 1..MaxBaseDelay,
                     max_delay : 1..MaxMaxDelay,
                     backoff_strategy : {"fixed", "linear", "exponential"},
                     jitter_type : {"none", "full", "equal", "decorrelated"},
                     multiplier : 2..MaxMultiplier,
                     retry_on_result : BOOLEAN]
    /\ rp = [total_calls |-> 0, total_retries |-> 0,
             total_successes |-> 0, total_failures |-> 0]
    /\ rpRun = [pc |-> "idle", attempt |-> 0, last_exception |-> None,
                previous_delay |-> 0, outcome |-> "none", cause |-> None,
                result |-> None]
    /\ rpHist = [pre |-> rp, attempts |-> <<>>, delays |-> <<>>, others |-> 0]

\* RetryPolicy._calculate_delay: the delays it may return.  Delays are whole
\* seconds; base_delay / 2 + uniform(0, base_delay / 2) covers the whole
\* seconds from base_delay / 2 rounded up to base_delay.
calculate_delay(attempt, previous_delay) ==
    LET strategy == rpConfig.backoff_strategy
        uncapped == IF strategy = "fixed" THEN rpConfig.base_delay
                    ELSE IF strategy = "linear" THEN rpConfig.base_delay * attempt
                    ELSE rpConfig.base_delay * Pow(rpConfig.multiplier, attempt - 1)
        base_delay == Min(uncapped, rpConfig.max_delay)
        jitter == rpConfig.jitter_type
    IN IF jitter = "none" THEN {base_delay}
       ELSE IF jitter = "full" THEN Uniform(0, base_delay)
       ELSE IF jitter = "equal" THEN ((base_delay + 1) \div 2)..base_delay
       ELSE Uniform(rpConfig.base_delay,
                    Min(previous_delay * 3, rpConfig.max_delay))

\* "attempt < self.config.max_attempts": another attempt follows
attempts_left_short(attempt) == attempt + 1 < rpConfig.max_attempts

attempts_left(attempt) == attempt < rpConfig.max_attempts

\* RetryPolicy.execute up to the first invocation of func
RPExecute ==
    /\ rpRun.pc \in {"idle", "done"}
    /\ rp.total_calls < MaxExecutes
    /\ rp' = [rp EXCEPT !.total_calls = @ + 1]
    /\ rpRun' = [pc |-> "call", attempt |-> 1, last_exception |-> None,
                 previous_delay |-> rpConfig.base_delay, outcome |-> "none",
                 cause |-> None, result |-> None]
    /\ rpHist' = [pre |-> rp, attempts |-> <<>>, delays |-> <<>>,
                  others |-> rpHist.others]
    /\ UNCHANGED rpConfig

\* How execute ends when func returned and no attempt follows: "Success",
\* also for a result the predicate wanted retried
returned_exhausted(wanted) == IF wanted THEN "RetryExhaustedError" ELSE "returned"

returned(wanted) == "returned"

\* Variant: a result the predicate wanted retried is returned uncounted
RPReturn_uncounted(wanted) ==
    /\ rpRun.pc = "call"
    /\ wanted => rpConfig.retry_on_result
    /\ IF wanted /\ attempts_left(rpRun.attempt)
       THEN \E delay \in calculate_delay(rpRun.attempt, rpRun.previous_delay) :
               /\ rpRun' = [rpRun EXCEPT !.pc = "sleep", !.previous_delay = delay]
               /\ rpHist' = [rpHist EXCEPT !.attempts = Append(@, "retry_result"),
                                           !.delays = Append(@, delay)]
               /\ UNCHANGED rp
       ELSE /\ rp' = [rp EXCEPT !.total_successes = IF wanted THEN @ ELSE @ + 1]
            /\ rpRun' = [rpRun EXCEPT !.pc = "done", !.outcome = returned(wanted),
                                      !.result = rpRun.attempt]
            /\ rpHist' = [rpHist EXCEPT !.attempts =
                             Append(@, IF wanted THEN "retry_result" ELSE "ok")]
    /\ UNCHANGED rpConfig

\* func returned; wanted tells whether the result predicate, if one is
\* configured, asks for a retry.  The result of attempt n is named n.
RPReturn(wanted) ==
    /\ rpRun.pc = "call"
    /\ wanted => rpConfig.retry_on_result
    /\ IF wanted /\ attempts_left(rpRun.attempt)
       THEN \E delay \in calculate_delay(rpRun.attempt, rpRun.previous_delay) :
               /\ rpRun' = [rpRun EXCEPT !.pc = "sleep", !.previous_delay = delay]
               /\ rpHist' = [rpHist EXCEPT !.attempts = Append(@, "retry_result"),
                                           !.delays = Append(@, delay)]
               /\ UNCHANGED rp
       ELSE /\ rp' = [rp EXCEPT !.total_successes = @ + 1]
            /\ rpRun' = [rpRun EXCEPT !.pc = "done", !.outcome = returned(wanted),
                                      !.result = rpRun.attempt]
            /\ rpHist' = [rpHist EXCEPT !.attempts =
                             Append(@, IF wanted THEN "retry_result" ELSE "ok")]
    /\ UNCHANGED rpConfig

\* func raised one of config.retry_on_exceptions.  The exception of attempt n
\* is named n.
RPRaise ==
    /\ rpRun.pc = "call"
    /\ IF attempts_left(rpRun.attempt)
       THEN \E delay \in calculate_delay(rpRun.attempt, rpRun.previous_delay) :
               /\ rpRun' = [rpRun EXCEPT !.pc = "sleep", !.previous_delay = delay,
                                         !.last_exception = rpRun.attempt]
               /\ rpHist' = [rpHist EXCEPT !.attempts = Append(@, "exception"),
                                           !.delays = Append(@, delay)]
               /\ UNCHANGED rp
       ELSE /\ rp' = [rp EXCEPT !.total_failures = @ + 1]
            /\ rpRun' = [rpRun EXCEPT !.pc = "done",
                                      !.last_exception = rpRun.attempt,
                                      !.outcome = "RetryExhaustedError",
                                      !.cause = rpRun.attempt]
            /\ rpHist' = [rpHist EXCEPT !.attempts = Append(@, "exception")]
    /\ UNCHANGED rpConfig

\* func raised an exception outside config.retry_on_exceptions: it propagates
RPRaiseOther ==
    /\ rpRun.pc = "call"
    /\ rpRun' = [rpRun EXCEPT !.pc = "done", !.outcome = "other",
                              !.cause = rpRun.attempt]
    /\ rpHist' = [rpHist EXCEPT !.attempts = Append(@, "other"), !.others = @ + 1]
    /\ UNCHANGED <<rpConfig, rp>>

\* asyncio.sleep(delay) is over: count the retry and invoke func again
RPWake ==
    /\ rpRun.pc = "sleep"
    /\ rp' = [rp EXCEPT !.total_retries = @ + 1]
    /\ rpRun' = [rpRun EXCEPT !.pc = "call", !.attempt = @ + 1]
    /\ UNCHANGED <<rpConfig, rpHist>>

(***************************************************************************)
(*                     Properties of the RetryPolicy                       *)
(***************************************************************************)
\* The invocations of func made by the execute in progress
RPInvoked == Len(rpHist.attempts) + (IF rpRun.pc = "call" THEN 1 ELSE 0)

RPAllRaised == \A n \in 1..Len(rpHist.attempts) : rpHist.attempts[n] = "exception"

\* C6: when func raises a configured exception on every attempt, execute
\* invokes it exactly max_attempts times (never more while it runs), adds
\* max_attempts - 1 to total_retries and one to total_failures, and raises
\* RetryExhaustedError whose cause is the exception of the final attempt.
C6_RetryExhausted ==
    /\ RPInvoked <= rpConfig.max_attempts
    /\ (rpRun.pc = "done" /\ RPAllRaised) =>
          /\ Len(rpHist.attempts) = rpConfig.max_attempts
          /\ rp.total_retries = rpHist.pre.total_retries + rpConfig.max_attempts - 1
          /\ rp.total_failures = rpHist.pre.total_failures + 1
          /\ rp.total_successes = rpHist.pre.total_successes
          /\ rpRun.outcome = "RetryExhaustedError"
          /\ rpRun.cause = rpConfig.max_attempts

\* max_attempts = 3 and three raising attempts: two retries, one failure
C6_Witness ==
    /\ rpConfig.max_attempts = 3
    /\ rpRun.pc = "done"
    /\ rpHist.attempts = <<"exception", "exception", "exception">>
    /\ rpRun.outcome = "RetryExhaustedError"

RPAllRetryResults ==
    \A n \in 1..Len(rpHist.attempts) : rpHist.attempts[n] = "retry_result"

\* C17: when func never raises and the result predicate asks for a retry on
\* every result, execute invokes func exactly max_attempts times, adds
\* max_attempts - 1 to total_retries and returns the result of the last
\* invocation; it does not raise RetryExhaustedError.
C17_PredicateExhausted ==
    (rpRun.pc = "done" /\ RPAllRetryResults) =>
        /\ Len(rpHist.attempts) = rpConfig.max_attempts
        /\ rp.total_retries = rpHist.pre.total_retries + rpConfig.max_attempts - 1
        /\ rpRun.outcome = "returned"
        /\ rpRun.result = rpConfig.max_attempts

\* max_attempts = 3 and three results the predicate wanted retried: the
\* third one is returned after two retries
C17_Witness ==
    /\ rpConfig.max_attempts = 3
    /\ rpRun.pc = "done"
    /\ rpHist.attempts = <<"retry_result", "retry_result", "retry_result">>
    /\ rpRun.result = 3
    /\ rp.total_retries = rpHist.pre.total_retries + 2

\* C38: after completed execute calls in which every raised exception was
\* of a configured kind, total_calls = total_successes + total_failures;
\* each execute invokes the function at least once and at most max_attempts
\* times; a result returned after the predicate path exhausted its attempts
\* is counted as a success.
C38_Counters ==
    /\ RPInvoked <= rpConfig.max_attempts
    /\ rpRun.pc \in {"idle", "done"} =>
          rp.total_calls = rp.total_successes + rp.total_failures + rpHist.others
    /\ rpRun.pc = "done" =>
          /\ Len(rpHist.attempts) >= 1
          /\ Len(rpHist.attempts) <= rpConfig.max_attempts
          /\ rpHist.attempts[Len(rpHist.attempts)] = "retry_result" =>
                /\ Len(rpHist.attempts) = rpConfig.max_attempts
                /\ rpRun.outcome = "returned"
                /\ rp.total_successes = rpHist.pre.total_successes + 1
                /\ rp.total_failures = rpHist.pre.total_failures

\* The second execute of a policy with max_attempts 2 returned a result the
\* predicate wanted retried, after the first execute had failed: two calls,
\* one success, one failure
C38_Witness ==
    /\ rpConfig.max_attempts = 2
    /\ rpRun.pc = "done"
    /\ rpHist.others = 0
    /\ rpHist.attempts = <<"exception", "retry_result">>
    /\ rp.total_calls = 2
    /\ rp.total_successes = 1
    /\ rp.total_failures = 1

\* C37: for every valid configuration, backoff strategy and jitter type,
\* decorrelated jitter carried across attempts included, each delay slept
\* between attempts is at least 0 and at most max_delay.
C37_DelayWithinMax ==
    \A n \in 1..Len(rpHist.delays) :
        /\ rpHist.delays[n] >= 0
        /\ rpHist.delays[n] <= rpConfig.max_delay

(***************************************************************************)
(*                             GuardrailEngine                             *)
(* One guard group is modelled: the input, output and action groups are    *)
(* three independent registries run by the same _select_guards and         *)
(* _run_guards.  One content is validated; a guard either fails it or not. *)
(***************************************************************************)
VARIABLES
    geConfig,   \* GuardrailConfig: fail_fast
    ge,         \* the GuardrailEngine object: the guard registry and the two counters
    geRun,      \* the frame of _run_guards: pc, guards, position, violations, outcome,
                \* and the guard_names argument of the validation
    geLog       \* history: the guards whose validate the current validation invoked

geVars == <<geConfig, ge, geRun, geLog>>

\* Number of guard names
MaxGuards == 2
\* Largest length of a guard_names argument
MaxNames == 2
\* Largest number of validations
MaxValidations == 2

GuardNames == {"g" \o ToString(i) : i \in 1..MaxGuards}

\* A guard: its name and the GuardResult its validate returns for the content
\* (message "" stands for no message; a passing guard gives none)
Guards == {g \in [name : GuardNames, passed : BOOLEAN, message : {"", "rejected"}] :
              g.passed => g.message = ""}

GuardMetadata(guard) == [checked_by |-> guard.name]

\* The guard_names arguments: None, or a list of names
RECURSIVE SeqsUpTo(_, _)
SeqsUpTo(S, n) ==
    IF n = 0 THEN {<<>>}
    ELSE SeqsUpTo(S, n - 1) \cup
         {Append(q, x) : q \in {t \in SeqsUpTo(S, n - 1) : Len(t) = n - 1}, x \in S}

GuardNameArgs == {[given |-> FALSE, names |-> <<>>]} \cup
                 {[given |-> TRUE, names |-> q] : q \in SeqsUpTo(GuardNames, MaxNames)}

\* No validation is in progress
GEIdleRun == [pc |-> "idle", guards |-> <<>>, idx |-> 0, violations |-> <<>>,
              outcome |-> "none", raised |-> [guard_name |-> "", message |-> ""],
              guard_names |-> [given |-> FALSE, names |-> <<>>]]

GEInit ==
    /\ geConfig \in [fail_fast : BOOLEAN]
    /\ ge = [guards |-> <<>>, total_validations |-> 0, total_violations |-> 0]
    /\ geRun = GEIdleRun
    /\ geLog = <<>>

\* Position of the guard registered under a name (0 when there is none)
GuardIndex(guard_dict, name) ==
    IF \E i \in 1..Len(guard_dict) : guard_dict[i].name = name
    THEN CHOOSE i \in 1..Len(guard_dict) : guard_dict[i].name = name
    ELSE 0

\* GuardrailEngine.register_*_guard: dict assignment, which keeps the position
\* of a name that is already registered.  Guards are registered between
\* validations (a validation in progress runs the list it selected at entry);
\* the record of the last validation is dropped.
GERegister(guard) ==
    /\ geRun.pc \in {"idle", "done"}
    /\ LET i == GuardIndex(ge.guards, guard.name)
       IN ge' = [ge EXCEPT !.guards = IF i = 0 THEN Append(@, guard)
                                      ELSE [@ EXCEPT ![i] = guard]]
    /\ geRun' = GEIdleRun
    /\ geLog' = <<>>
    /\ UNCHANGED geConfig

\* GuardrailEngine._select_guards
select_guards_registered_order(guard_dict, guard_names) ==
    IF ~guard_names.given THEN guard_dict
    ELSE LET Named(guard) == \E n \in 1..Len(guard_names.names) :
                                guard_names.names[n] = guard.name
         IN SelectSeq(guard_dict, Named)

RECURSIVE select_guards(_, _)
select_guards(guard_dict, guard_names) ==
    IF ~guard_names.given THEN guard_dict
    ELSE IF guard_names.names = <<>> THEN <<>>
    ELSE LET i == GuardIndex(guard_dict, Head(guard_names.names))
             rest == select_guards(guard_dict,
                                   [guard_names EXCEPT !.names = Tail(@)])
         IN IF i = 0 THEN rest ELSE <<guard_dict[i]>> \o rest

\* config.fail_fast, as tested by _run_guards
fail_fast_off == FALSE

fail_fast == geConfig.fail_fast

\* GuardrailViolation(guard_name, message, metadata) of one failed guard
Violation(guard) ==
    [guard_name |-> guard.name,
     message |-> IF guard.message = "" THEN "Validation failed" ELSE guard.message,
     metadata |-> GuardMetadata(guard)]

\* The aggregate GuardrailViolation raised when fail_fast is off
MultipleViolation(violations) ==
    [guard_name |-> "multiple",
     message |-> ToString(Len(violations)) \o " guard(s) failed",
     metadata |-> [violations |->
                      [i \in 1..Len(violations) |->
                          [guard |-> violations[i].guard_name,
                           message |-> violations[i].message,
                           metadata |-> violations[i].metadata]]]]

\* _run_guards after the loop: raise the aggregate or return the content
GEFinish(run) ==
    IF run.violations # <<>>
    THEN [run EXCEPT !.pc = "done", !.outcome = "GuardrailViolation",
                     !.raised = MultipleViolation(run.violations)]
    ELSE [run EXCEPT !.pc = "done", !.outcome = "returned"]

\* validate_input / validate_output / validate_action: select the guards and
\* run _run_guards up to the first guard.validate
GEValidate(guard_names) ==
    /\ geRun.pc \in {"idle", "done"}
    /\ ge.total_validations < MaxValidations
    /\ ge' = [ge EXCEPT !.total_validations = @ + 1]
    /\ LET run == [pc |-> "validate",
                   guards |-> select_guards(ge.guards, guard_names),
                   idx |-> 1, violations |-> <<>>, outcome |-> "none",
                   raised |-> [guard_name |-> "", message |-> ""],
                   guard_names |-> guard_names]
       IN IF run.guards = <<>>
          THEN geRun' = GEFinish(run) /\ geLog' = <<>>
          ELSE geRun' = run /\ geLog' = <<run.guards[1].name>>
    /\ UNCHANGED geConfig

\* guard.validate returned: record a violation, raise at once in fail-fast
\* mode, otherwise go on to the next guard or leave the loop
GEGuardResult ==
    /\ geRun.pc = "validate"
    /\ LET guard == geRun.guards[geRun.idx]
           failed == ~guard.passed
           run == IF failed /\ ~fail_fast
                  THEN [geRun EXCEPT !.violations = Append(@, Violation(guard))]
                  ELSE geRun
       IN /\ ge' = [ge EXCEPT !.total_violations = IF failed THEN @ + 1 ELSE @]
          /\ IF failed /\ fail_fast
             THEN /\ geRun' = [geRun EXCEPT !.pc = "done",
                                            !.outcome = "GuardrailViolation",
                                            !.raised = Violation(guard)]
                  /\ UNCHANGED geLog
             ELSE IF geRun.idx < Len(geRun.guards)
             THEN /\ geRun' = [run EXCEPT !.idx = @ + 1]
                  /\ geLog' = Append(geLog, geRun.guards[geRun.idx + 1].name)
             ELSE /\ geRun' = GEFinish(run)
                  /\ UNCHANGED geLog
    /\ UNCHANGED geConfig

(***************************************************************************)
(*                   Properties of the GuardrailEngine                     *)
(***************************************************************************)
\* The positions in the selected list of the guards that fail the content
GEFailing == {i \in 1..Len(geRun.guards) : ~geRun.guards[i].passed}

GEFirstFailing == CHOOSE i \in GEFailing : \A j \in GEFailing : i <= j

GENames(guards) == [i \in 1..Len(guards) |-> guards[i].name]

\* The selected guards that fail the content, in the order they were selected
GEFailingGuards == LET Fails(g) == ~g.passed IN SelectSeq(geRun.guards, Fails)

\* C9: a validation whose selected guards include at least two that fail the
\* content ends, in fail-fast mode, with a GuardrailViolation carrying the
\* name and message of the first failing guard, having invoked no guard after
\* it; with fail-fast disabled it invokes every selected guard and raises one
\* GuardrailViolation named "multiple" whose metadata lists every failing
\* guard's violation, in order.
C9_FailFastOrAggregate ==
    (geRun.pc = "done" /\ Cardinality(GEFailing) >= 2) =>
        /\ geRun.outcome = "GuardrailViolation"
        /\ IF geConfig.fail_fast
           THEN /\ geRun.raised = Violation(geRun.guards[GEFirstFailing])
                /\ geRun.raised.guard_name = geRun.guards[GEFirstFailing].name
                /\ geLog = SubSeq(GENames(geRun.guards), 1, GEFirstFailing)
                /\ Len(geLog) < Len(geRun.guards)
           ELSE /\ geLog = GENames(geRun.guards)
                /\ geRun.raised.guard_name = "multiple"
                /\ Len(geRun.raised.metadata.violations) = Cardinality(GEFailing)
                /\ \A i \in 1..Len(GEFailingGuards) :
                      LET v == geRun.raised.metadata.violations[i]
                          g == GEFailingGuards[i]
                      IN /\ v.guard = g.name
                         /\ v.message = Violation(g).message
                         /\ v.metadata = GuardMetadata(g)

\* Fail-fast: two guards that both fail were selected, only the first one ran
C9_Witness ==
    /\ geRun.pc = "done"
    /\ geConfig.fail_fast
    /\ Len(geRun.guards) = 2
    /\ GEFailing = {1, 2}
    /\ geRun.guards[1].name # geRun.guards[2].name
    /\ geLog = <<geRun.guards[1].name>>

\* Fail-fast disabled: both failing guards ran and one aggregate was raised
C9_WitnessAggregate ==
    /\ geRun.pc = "done"
    /\ ~geConfig.fail_fast
    /\ Len(geRun.guards) = 2
    /\ GEFailing = {1, 2}
    /\ geRun.guards[1].name # geRun.guards[2].name
    /\ geRun.raised.guard_name = "multiple"

\* The guards invoked so far are the first of the selected guards, in order
GERunsSelected == geLog = SubSeq(GENames(geRun.guards), 1, Len(geLog))

\* No two guards of the registry carry the same name
GEOnePerName ==
    \A i, j \in 1..Len(ge.guards) : ge.guards[i].name = ge.guards[j].name => i = j

\* A register call on a registry that holds the name replaced the guard of
\* that name, where it was; any other appended one guard
GEReplaced ==
    \/ /\ Len(ge'.guards) = Len(ge.guards)
       /\ \E i \in 1..Len(ge.guards) :
             /\ ge'.guards[i].name = ge.guards[i].name
             /\ \A j \in 1..Len(ge.guards) : j # i => ge'.guards[j] = ge.guards[j]
    \/ /\ Len(ge'.guards) = Len(ge.guards) + 1
       /\ SubSeq(ge'.guards, 1, Len(ge.guards)) = ge.guards
       /\ \A i \in 1..Len(ge.guards) :
             ge.guards[i].name # ge'.guards[Len(ge'.guards)].name

\* C28 as stated: the selected guards run in registration order, for the
\* whole group and for a named subset whatever the order of the names, and
\* registering under an existing name replaces that guard.
C28_RegistrationOrder ==
    [][/\ GERunsSelected'
       /\ \A i, j \in 1..Len(geRun'.guards) :
             i < j => GuardIndex(ge'.guards, geRun'.guards[i].name)
                         < GuardIndex(ge'.guards, geRun'.guards[j].name)
       /\ GEOnePerName'
       /\ geRun'.pc = "idle" => GEReplaced]_geVars

\* The names of a guard_names list that are registered, in the order listed
GERegisteredNames(names) ==
    LET Registered(name) == GuardIndex(ge.guards, name) # 0
    IN SelectSeq(names, Registered)

\* The guards selected are the whole group in registration order, or the
\* registered guards of the names in the order the names are listed
GESelectedAsListed ==
    IF ~geRun.guard_names.given
    THEN geRun.guards = ge.guards
    ELSE LET names == GERegisteredNames(geRun.guard_names.names)
         IN geRun.guards =
               [i \in 1..Len(names) |-> ge.guards[GuardIndex(ge.guards, names[i])]]

\* C28 as amended: the whole group runs in registration order; a named
\* subset runs in the order the names are listed (a name listed twice runs
\* twice, an unregistered name is skipped); registering under an existing
\* name replaces that guard and keeps its place.
C28_OrderAsListed ==
    [][/\ GERunsSelected'
       /\ geRun'.pc \in {"validate", "done"} => GESelectedAsListed'
       /\ GEOnePerName'
       /\ geRun'.pc = "idle" => GEReplaced]_geVars

\* g1 then g2 were registered; the names were listed g2, g1 and the guards
\* ran in that order
C28_Witness ==
    /\ GENames(ge.guards) = <<"g1", "g2">>
    /\ geRun.guard_names = [given |-> TRUE, names |-> <<"g2", "g1">>]
    /\ geRun.pc = "done"
    /\ geRun.outcome = "returned"
    /\ geLog = <<"g2", "g1">>

\* The whole group ran in registration order
C28_WitnessGroup ==
    /\ GENames(ge.guards) = <<"g2", "g1">>
    /\ ~geRun.guard_names.given
    /\ geRun.pc = "done"
    /\ geLog = <<"g2", "g1">>

(***************************************************************************)
(*                                  Crew                                   *)
(* Agents are named 1..MaxAgentNames; a task is the name of the agent it   *)
(* is bound to (None when unbound).  The context is the one key the crew   *)
(* writes, previous_result (None when the key is absent).                  *)
(***************************************************************************)
VARIABLES
    crew,       \* the Crew object: config.process, agents, tasks
    crewRun,    \* the frame of Crew.kickoff: pc, inputs, context, results, outcome,
                \* and the tasks whose execution returned, in completion order
    crewLog     \* history: every Agent.execute started, its context and its result

crewVars == <<crew, crewRun, crewLog>>

\* Number of agent names
MaxAgentNames == 2
\* Largest number of agents added to the crew
MaxAgents == 2
\* Largest number of tasks added to the crew
MaxTasks == 2

AgentNames == 1..MaxAgentNames

CrewResults == 1..MaxResult

CrewInit ==
    /\ crew \in [process : {"sequential", "parallel", "hierarchical"},
                 agents : {<<>>}, tasks : {<<>>}]
    /\ crewRun = [pc |-> "build", inputs |-> None, context |-> None, idx |-> 0,
                  results |-> <<>>, running |-> {}, completed |-> <<>>,
                  outcome |-> "none", returned |-> <<>>, missing |-> None]
    /\ crewLog = <<>>

\* Crew.add_agent
CrewAddAgent(name) ==
    /\ crewRun.pc = "build"
    /\ Len(crew.agents) < MaxAgents
    /\ crew' = [crew EXCEPT !.agents = Append(@, name)]
    /\ UNCHANGED <<crewRun, crewLog>>

\* Crew.add_task
CrewAddTask(agent) ==
    /\ crewRun.pc = "build"
    /\ Len(crew.tasks) < MaxTasks
    /\ crew' = [crew EXCEPT !.tasks = Append(@, agent)]
    /\ UNCHANGED <<crewRun, crewLog>>

\* Crew._find_agent: the position of the agent in crew.agents, None when not found
find_agent(agent_name) ==
    IF agent_name = None
    THEN IF crew.agents # <<>> THEN 1 ELSE None
    ELSE IF \E a \in 1..Len(crew.agents) : crew.agents[a] = agent_name
         THEN CHOOSE a \in 1..Len(crew.agents) :
                 /\ crew.agents[a] = agent_name
                 /\ \A b \in 1..(a - 1) : crew.agents[b] # agent_name
         ELSE None

\* _execute_sequential: context["previous_result"] = result
updated_context_stale(context, result) == context

updated_context(context, result) == result

\* An Agent.execute(task.config.description, context) that has started
CrewExecution(task, context) ==
    [task |-> task, agent |-> find_agent(crew.tasks[task]),
     previous_result |-> context, result |-> None]

\* kickoff ends with "Agent ... not found in crew"
CrewNotFound_first(run, task) ==
    [run EXCEPT !.pc = "done", !.outcome = "ValueError", !.missing = crew.tasks[1]]

CrewNotFound(run, task) ==
    [run EXCEPT !.pc = "done", !.outcome = "ValueError", !.missing = crew.tasks[task]]

\* _execute_sequential from the head of the loop for the given task up to the
\* next await, or to its end
CrewSeqStep(run, task, log) ==
    IF task > Len(crew.tasks)
    THEN /\ crewRun' = [run EXCEPT !.pc = "done", !.outcome = "returned",
                           !.returned = IF run.results # <<>>
                                        THEN <<run.results[Len(run.results)]>>
                                        ELSE <<>>]
         /\ crewLog' = log
    ELSE IF find_agent(crew.tasks[task]) = None
    THEN /\ crewRun' = CrewNotFound(run, task)
         /\ crewLog' = log
    ELSE /\ crewRun' = [run EXCEPT !.pc = "seq", !.idx = task]
         /\ crewLog' = Append(log, CrewExecution(task, run.context))

\* The tasks whose agent _find_agent does not find
CrewUnresolved == {t \in 1..Len(crew.tasks) : find_agent(crew.tasks[t]) = None}

\* Crew.kickoff(inputs) up to its first await.  previous_result is the value
\* of that key in inputs (None when absent).  The value returned is kept as a
\* one-element sequence in sequential mode (empty for None) and as the result
\* list in parallel mode.
CrewKickoff(previous_result) ==
    /\ crewRun.pc = "build"
    /\ LET run == [crewRun EXCEPT !.inputs = previous_result,
                                  !.context = previous_result]
       IN IF crew.process = "sequential" THEN CrewSeqStep(run, 1, crewLog)
          ELSE IF crew.process = "parallel"
          THEN IF CrewUnresolved # {}
               THEN /\ crewRun' = CrewNotFound(run,
                            CHOOSE t \in CrewUnresolved :
                               \A u \in CrewUnresolved : t <= u)
                    /\ UNCHANGED crewLog
               ELSE IF crew.tasks = <<>>
               THEN /\ crewRun' = [run EXCEPT !.pc = "done", !.outcome = "returned"]
                    /\ UNCHANGED crewLog
               ELSE /\ crewRun' = [run EXCEPT !.pc = "par",
                                      !.running = 1..Len(crew.tasks),
                                      !.results = [t \in 1..Len(crew.tasks) |-> None]]
                    /\ crewLog' = [t \in 1..Len(crew.tasks) |->
                                      CrewExecution(t, run.inputs)]
          ELSE /\ crewRun' = [run EXCEPT !.pc = "done",
                                         !.outcome = "NotImplementedError"]
               /\ UNCHANGED crewLog
    /\ UNCHANGED crew

\* Sequential mode: agent.execute returned result
CrewSeqReturn(result) ==
    /\ crewRun.pc = "seq"
    /\ CrewSeqStep([crewRun EXCEPT !.results = Append(@, result),
                                   !.completed = Append(@, crewRun.idx),
                                   !.context = updated_context(@, result)],
                   crewRun.idx + 1,
                   [crewLog EXCEPT ![Len(crewLog)].result = result])
    /\ UNCHANGED crew

\* Sequential mode: agent.execute raised; the exception leaves kickoff
CrewSeqRaise ==
    /\ crewRun.pc = "seq"
    /\ crewRun' = [crewRun EXCEPT !.pc = "done", !.outcome = "agent_error"]
    /\ UNCHANGED <<crew, crewLog>>

\* asyncio.gather(*tasks_coroutines): the result of the t-th coroutine is
\* the t-th element of the list gather returns
gather_by_completion(results, t, result) ==
    [results EXCEPT ![Len(crewRun.completed) + 1] = result]

gather(results, t, result) == [results EXCEPT ![t] = result]

\* Parallel mode: the execution of task t returned result; asyncio.gather
\* returns the result list when the last execution has returned
CrewParReturn(t, result) ==
    /\ t \in crewRun.running
    /\ crewLog' = [crewLog EXCEPT ![t].result = result]
    /\ LET run == [crewRun EXCEPT !.running = @ \ {t},
                                  !.completed = Append(@, t)]
           results == gather(crewRun.results, t, result)
       IN crewRun' =
             IF crewRun.pc # "par" THEN run
             ELSE IF run.running = {}
             THEN [run EXCEPT !.results = results, !.pc = "done",
                              !.outcome = "returned", !.returned = results]
             ELSE [run EXCEPT !.results = results]
    /\ UNCHANGED crew

\* Parallel mode: the execution of task t raised; asyncio.gather raises the
\* first exception at once and the other executions go on
CrewParRaise(t) ==
    /\ t \in crewRun.running
    /\ crewRun' = [crewRun EXCEPT !.running = @ \ {t},
                      !.pc = "done",
                      !.outcome = IF crewRun.pc = "par" THEN "agent_error" ELSE @]
    /\ UNCHANGED <<crew, crewLog>>

(***************************************************************************)
(*                         Properties of the Crew                          *)
(***************************************************************************)
\* C10: in sequential mode the tasks are executed one at a time in list
\* order; every task after the first is executed with a context whose
\* previous_result is the result the task before it returned; and kickoff
\* returns the result of the last task, or None when there are no tasks.
C10_SequentialThreading ==
    crew.process = "sequential" =>
        /\ \A e \in 1..Len(crewLog) :
              /\ crewLog[e].task = e
              /\ e > 1 => /\ crewLog[e - 1].result # None
                          /\ crewLog[e].previous_result = crewLog[e - 1].result
              /\ e < Len(crewLog) => crewLog[e].result # None
        /\ (crewRun.pc = "done" /\ crewRun.outcome = "returned") =>
              /\ Len(crewLog) = Len(crew.tasks)
              /\ crewRun.returned =
                    IF crew.tasks = <<>> THEN <<>>
                    ELSE <<crewLog[Len(crew.tasks)].result>>

\* Two tasks: the first returned 1, the second ran with previous_result = 1
\* and returned 2, which kickoff returned
C10_Witness ==
    /\ crew.process = "sequential"
    /\ crewRun.pc = "done"
    /\ Len(crew.tasks) = 2
    /\ Len(crewLog) = 2
    /\ crewLog[1].result = 1
    /\ crewLog[2].previous_result = 1
    /\ crewLog[2].result = 2
    /\ crewRun.returned = <<2>>

\* No task: kickoff returned None
C10_WitnessEmpty ==
    /\ crew.process = "sequential"
    /\ crewRun.pc = "done"
    /\ crew.tasks = <<>>
    /\ crewRun.outcome = "returned"
    /\ crewRun.returned = <<>>

\* C11: in parallel mode every execution is started with the input context
\* of kickoff, which kickoff never changes (no previous_result is added), and
\* the list kickoff returns holds at position i the result of the i-th task,
\* in whatever order the executions completed.
C11_ParallelOrder ==
    crew.process = "parallel" =>
        /\ crewRun.context = crewRun.inputs
        /\ \A e \in 1..Len(crewLog) :
              /\ crewLog[e].task = e
              /\ crewLog[e].previous_result = crewRun.inputs
        /\ (crewRun.pc = "done" /\ crewRun.outcome = "returned") =>
              /\ Len(crewRun.returned) = Len(crew.tasks)
              /\ Len(crewLog) = Len(crew.tasks)
              /\ \A i \in 1..Len(crew.tasks) :
                    /\ crewLog[i].result # None
                    /\ crewRun.returned[i] = crewLog[i].result

\* Two tasks started with previous_result = 1; the second completed first
\* with 2, then the first with 1; kickoff returned <<1, 2>>
C11_Witness ==
    /\ crew.process = "parallel"
    /\ crewRun.pc = "done"
    /\ crewRun.outcome = "returned"
    /\ crewRun.inputs = 1
    /\ crewRun.completed = <<2, 1>>
    /\ crewLog[1].previous_result = 1
    /\ crewLog[2].previous_result = 1
    /\ crewRun.returned = <<1, 2>>

\* The tasks bound to a name that no agent of the crew carries
CrewUnmatched ==
    {t \in 1..Len(crew.tasks) :
        /\ crew.tasks[t] # None
        /\ \A a \in 1..Len(crew.agents) : crew.agents[a] # crew.tasks[t]}

\* The tasks before t are the executions started, in order, and all returned
CrewExecutedBefore(t) ==
    /\ Len(crewLog) = t - 1
    /\ \A e \in 1..Len(crewLog) : crewLog[e].task = e /\ crewLog[e].result # None

\* C25 as stated: kickoff (sequential or parallel) fails with a lookup error
\* naming the agent when a task is bound to a name that matches no agent of
\* the crew; in parallel mode no agent execution has started, in sequential
\* mode the tasks listed before the unresolvable one have been executed.
C25_LookupError ==
    (/\ crewRun.pc = "done"
     /\ crew.process \in {"sequential", "parallel"}
     /\ CrewUnmatched # {}) =>
        /\ crewRun.outcome = "ValueError"
        /\ \E t \in CrewUnmatched :
              /\ crewRun.missing = crew.tasks[t]
              /\ crew.process = "parallel" => crewLog = <<>>
              /\ crew.process = "sequential" => CrewExecutedBefore(t)

\* The first task that _find_agent does not resolve
CrewFirstUnresolved ==
    CHOOSE t \in 1..Len(crew.tasks) :
        /\ find_agent(crew.tasks[t]) = None
        /\ \A u \in 1..(t - 1) : find_agent(crew.tasks[u]) # None

\* C25 as amended: the lookup error names the agent of the first task that
\* is not resolved (a bound name matching no agent, or an unbound task of a
\* crew without agents); in parallel mode no execution has started; in
\* sequential mode the tasks before it have been executed, unless one of
\* these executions raised, and then that exception leaves kickoff and no
\* later task is executed.
C25_LookupErrorFirstUnresolved ==
    (/\ crewRun.pc = "done"
     /\ crew.process \in {"sequential", "parallel"}
     /\ CrewUnmatched # {}) =>
        LET t == CrewFirstUnresolved
        IN /\ crew.process = "parallel" =>
                 /\ crewRun.outcome = "ValueError"
                 /\ crewRun.missing = crew.tasks[t]
                 /\ crewLog = <<>>
           /\ crew.process = "sequential" =>
                 IF crewRun.outcome = "ValueError"
                 THEN /\ crewRun.missing = crew.tasks[t]
                      /\ CrewExecutedBefore(t)
                 ELSE /\ crewRun.outcome = "agent_error"
                      /\ Len(crewLog) < t
                      /\ \A e \in 1..Len(crewLog) :
                            /\ crewLog[e].task = e
                            /\ crewLog[e].result = None <=> e = Len(crewLog)

\* Sequential, agents <<1>>, tasks <<1, 2>>: the first task returned, then
\* kickoff failed naming agent 2
C25_Witness ==
    /\ crew.process = "sequential"
    /\ crew.agents = <<1>>
    /\ crew.tasks = <<1, 2>>
    /\ crewRun.pc = "done"
    /\ crewRun.outcome = "ValueError"
    /\ crewRun.missing = 2
    /\ Len(crewLog) = 1
    /\ crewLog[1].result # None

\* Parallel, same crew: kickoff failed naming agent 2, nothing started
C25_WitnessParallel ==
    /\ crew.process = "parallel"
    /\ crew.agents = <<1>>
    /\ crew.tasks = <<1, 2>>
    /\ crewRun.pc = "done"
    /\ crewRun.outcome = "ValueError"
    /\ crewRun.missing = 2
    /\ crewLog = <<>>

\* Sequential, same crew: the execution of the first task raised
C25_WitnessRaised ==
    /\ crew.process = "sequential"
    /\ crew.agents = <<1>>
    /\ crew.tasks = <<1, 2>>
    /\ crewRun.pc = "done"
    /\ crewRun.outcome = "agent_error"

(***************************************************************************)
(*                            CommunicationBus                             *)
(* Agents are named 1..MaxBusAgents.  A handler is named by the number of  *)
(* the subscribe call that registered it, a message by the number of the   *)
(* send call that enqueued it.  broadcast is a sequence of send calls.     *)
(***************************************************************************)
VARIABLES
    bus,        \* the CommunicationBus: subscribers, message_queue, _running
    busTasks,   \* the _process_messages tasks created by start, in creation order;
                \* history: where each task was when stop was called on the
                \* running bus, and the messages it dequeued since
    busSent,    \* history: the number of send calls
    busLog      \* history: the handler invocations started, returned and raised

busVars == <<bus, busTasks, busSent, busLog>>

\* Number of agent names
MaxBusAgents == 2
\* Largest number of subscribe calls
MaxSubscriptions == 2
\* Largest number of send calls
MaxMessages == 2
\* Largest number of start calls
MaxStarts == 2

BusAgents == 1..MaxBusAgents

BusInit ==
    /\ bus = [subscribers |-> [a \in BusAgents |-> <<>>], message_queue |-> <<>>,
              running |-> FALSE]
    /\ busTasks = <<>>
    /\ busSent = 0
    /\ busLog = <<>>

\* The handlers registered so far
BusHandlers == UNION {{bus.subscribers[a][i] : i \in 1..Len(bus.subscribers[a])} :
                         a \in BusAgents}

\* CommunicationBus.subscribe
BusSubscribe(agent_name) ==
    /\ Cardinality(BusHandlers) < MaxSubscriptions
    /\ bus' = [bus EXCEPT !.subscribers[agent_name] =
                             Append(@, Cardinality(BusHandlers) + 1)]
    /\ UNCHANGED <<busTasks, busSent, busLog>>

\* CommunicationBus.send: the put on the unbounded queue never waits
BusSend(recipient) ==
    /\ busSent < MaxMessages
    /\ busSent' = busSent + 1
    /\ bus' = [bus EXCEPT !.message_queue =
                             Append(@, [id |-> busSent + 1, recipient |-> recipient])]
    /\ UNCHANGED <<busTasks, busLog>>

\* CommunicationBus.start: create_task schedules a new _process_messages
BusStart ==
    /\ Len(busTasks) < MaxStarts
    /\ bus' = [bus EXCEPT !.running = TRUE]
    /\ busTasks' = Append([k \in 1..Len(busTasks) |->
                              [busTasks[k] EXCEPT !.at_stop = "", !.dequeued = 0]],
                          [pc |-> "new", message |-> None,
                           recipient |-> None, idx |-> 0,
                           raised |-> FALSE, at_stop |-> "", dequeued |-> 0])
    /\ UNCHANGED <<busSent, busLog>>

\* CommunicationBus.stop
BusStop ==
    /\ bus' = [bus EXCEPT !.running = FALSE]
    /\ busTasks' = IF bus.running
                   THEN [k \in 1..Len(busTasks) |->
                            [busTasks[k] EXCEPT !.at_stop = busTasks[k].pc,
                                                !.dequeued = 0]]
                   ELSE busTasks
    /\ UNCHANGED <<busSent, busLog>>

\* while self._running: the task waits for the queue or leaves the loop
BusLoopHead_forever(task) == [task EXCEPT !.pc = "get"]

BusLoopHead(task) == [task EXCEPT !.pc = IF bus.running THEN "get" ELSE "exited"]

BusEvent(e, task) == [ev |-> e, task |-> task, message |-> busTasks[task].message,
                      recipient |-> busTasks[task].recipient,
                      handler |-> bus.subscribers[busTasks[task].recipient]
                                                 [busTasks[task].idx]]

\* The first step of a task created by start
BusTaskRun(k) ==
    /\ k \in 1..Len(busTasks)
    /\ busTasks[k].pc = "new"
    /\ busTasks' = [busTasks EXCEPT ![k] = BusLoopHead(@)]
    /\ UNCHANGED <<bus, busSent, busLog>>

\* message_queue.get() returned a message: the first handler of its
\* recipient is called; with no handler the task is back at the loop head
BusGet(k) ==
    /\ k \in 1..Len(busTasks)
    /\ busTasks[k].pc = "get"
    /\ bus.message_queue # <<>>
    /\ LET message == Head(bus.message_queue)
           handlers == bus.subscribers[message.recipient]
           task == [busTasks[k] EXCEPT !.message = message.id,
                                       !.recipient = message.recipient,
                                       !.dequeued = IF bus.running THEN @ ELSE @ + 1]
       IN /\ bus' = [bus EXCEPT !.message_queue = Tail(@)]
          /\ IF handlers # <<>>
             THEN /\ busTasks' = [busTasks EXCEPT ![k] =
                                     [task EXCEPT !.pc = "handler", !.idx = 1]]
                  /\ busLog' = Append(busLog,
                                  [ev |-> "start", task |-> k, message |-> message.id,
                                   recipient |-> message.recipient,
                                   handler |-> handlers[1]])
             ELSE /\ busTasks' = [busTasks EXCEPT ![k] = BusLoopHead(task)]
                  /\ UNCHANGED busLog
    /\ UNCHANGED busSent

\* wait_for timed out on the empty queue: continue.  With _running still
\* true the task waits again, which changes nothing.
BusTimeout(k) ==
    /\ k \in 1..Len(busTasks)
    /\ busTasks[k].pc = "get"
    /\ bus.message_queue = <<>>
    /\ ~bus.running
    /\ busTasks' = [busTasks EXCEPT ![k] = BusLoopHead(@)]
    /\ UNCHANGED <<bus, busSent, busLog>>

\* await handler(message) returned: the next handler of the list is called,
\* or the task is back at the loop head
BusHandlerReturn(k) ==
    /\ k \in 1..Len(busTasks)
    /\ busTasks[k].pc = "handler"
    /\ LET task == busTasks[k]
           handlers == bus.subscribers[task.recipient]
       IN IF task.idx < Len(handlers)
          THEN /\ busTasks' = [busTasks EXCEPT ![k].idx = @ + 1]
               /\ busLog' = busLog \o
                     <<BusEvent("end", k),
                       [BusEvent("start", k) EXCEPT !.handler = handlers[task.idx + 1]]>>
          ELSE /\ busTasks' = [busTasks EXCEPT ![k] = BusLoopHead(@)]
               /\ busLog' = Append(busLog, BusEvent("end", k))
    /\ UNCHANGED <<bus, busSent>>

\* Variant: the exception of a handler is caught and the loop goes on
BusHandlerRaise_caught(k) ==
    /\ k \in 1..Len(busTasks)
    /\ busTasks[k].pc = "handler"
    /\ busTasks' = [busTasks EXCEPT ![k] = BusLoopHead([@ EXCEPT !.raised = TRUE])]
    /\ busLog' = Append(busLog, BusEvent("raise", k))
    /\ UNCHANGED <<bus, busSent>>

\* await handler(message) raised: only asyncio.TimeoutError is caught, the
\* exception ends the task
BusHandlerRaise(k) ==
    /\ k \in 1..Len(busTasks)
    /\ busTasks[k].pc = "handler"
    /\ busTasks' = [busTasks EXCEPT ![k].pc = "exited", ![k].raised = TRUE]
    /\ busLog' = Append(busLog, BusEvent("raise", k))
    /\ UNCHANGED <<bus, busSent>>

(***************************************************************************)
(*                   Properties of the CommunicationBus                    *)
(***************************************************************************)
BusStarts == {p \in 1..Len(busLog) : busLog[p].ev = "start"}

\* The handlers called for message m, in the order of their calls
BusCalled(m) == LET ForM(e) == e.ev = "start" /\ e.message = m
                    calls == SelectSeq(busLog, ForM)
                IN [j \in 1..Len(calls) |-> calls[j].handler]

\* C12: messages are dispatched in the order send enqueued them; the
\* handlers called for one message are the handlers subscribed for its
\* recipient in registration order, each one awaited before the next is
\* called; and no handler of a later message is called before every handler
\* of the current message has finished.
C12_OrderedDelivery ==
    /\ \A p, q \in BusStarts : p < q => busLog[p].message <= busLog[q].message
    /\ \A p \in BusStarts :
          LET called == BusCalled(busLog[p].message)
          IN /\ Len(called) <= Len(bus.subscribers[busLog[p].recipient])
             /\ called = SubSeq(bus.subscribers[busLog[p].recipient], 1, Len(called))
    /\ \A p \in BusStarts :
          p < Len(busLog) => /\ busLog[p + 1].ev \in {"end", "raise"}
                             /\ busLog[p + 1].message = busLog[p].message
                             /\ busLog[p + 1].handler = busLog[p].handler

\* The tasks that exist while stop was the last of the start and stop calls
BusStopped == IF bus.running THEN {} ELSE 1..Len(busTasks)

\* C27 as stated: after stop() on a started bus, not followed by start(),
\* a consume loop dequeues no further message: it finishes the dispatch it
\* was in, or the wait it was in, and leaves the loop at the loop head.
C27_StopNoFurtherDequeue ==
    \A k \in BusStopped :
        /\ busTasks[k].dequeued = 0
        /\ busTasks[k].pc \in {busTasks[k].at_stop, "exited"}

\* C27 as amended: after stop() a consume loop dequeues at most one further
\* message, and only the one its current queue wait returns; it dispatches
\* that message and leaves the loop at the loop head without waiting again.
C27_StopAtMostOneDequeue ==
    \A k \in BusStopped :
        /\ busTasks[k].dequeued <= 1
        /\ busTasks[k].dequeued = 1 => busTasks[k].at_stop = "get"
        /\ busTasks[k].pc = "get" =>
              busTasks[k].at_stop = "get" /\ busTasks[k].dequeued = 0
        /\ busTasks[k].pc = "new" => busTasks[k].at_stop = "new"
        /\ busTasks[k].pc = "handler" =>
              \/ busTasks[k].at_stop = "handler" /\ busTasks[k].dequeued = 0
              \/ busTasks[k].at_stop = "get" /\ busTasks[k].dequeued = 1

\* stop() during the dispatch of message 1: the loop finished the dispatch
\* and left; message 2 is still in the queue
C27_Witness ==
    /\ ~bus.running
    /\ Len(busTasks) = 1
    /\ busTasks[1].at_stop = "handler"
    /\ busTasks[1].pc = "exited"
    /\ ~busTasks[1].raised
    /\ busTasks[1].message = 1
    /\ Len(bus.message_queue) = 1
    /\ bus.message_queue[1].id = 2

\* stop() during the queue wait, then send: the loop took the message,
\* dispatched it and left
C27_WitnessDequeued ==
    /\ ~bus.running
    /\ Len(busTasks) = 1
    /\ busTasks[1].at_stop = "get"
    /\ busTasks[1].dequeued = 1
    /\ busTasks[1].pc = "exited"

\* The consume loops that wait for the queue or dispatch a message
BusActiveLoops == {k \in 1..Len(busTasks) : busTasks[k].pc \in {"get", "handler"}}

\* C33: after any sequence of start() and stop() calls there is never more
\* than one consume loop dequeuing messages, and two messages are never
\* dispatched at the same time.
C33_SingleLoop ==
    /\ Cardinality(BusActiveLoops) <= 1
    /\ \A j, k \in 1..Len(busTasks) :
          (busTasks[j].pc = "handler" /\ busTasks[k].pc = "handler") => j = k

BusRaises == {p \in 1..Len(busLog) : busLog[p].ev = "raise"}

C34_WitnessRestart ==
    /\ Len(busTasks) = 2
    /\ busTasks[1].raised
    /\ busLog # <<>>
    /\ busLog[Len(busLog)].task = 2
    /\ busLog[Len(busLog)].ev = "end"
    /\ \E p \in BusRaises : busLog[p].message < busLog[Len(busLog)].message

(***************************************************************************)
(*                                Workflow                                 *)
(* A dictionary is a function whose domain is its set of keys.  A node     *)
(* handler (a function, or the execute of an agent) is awaited and returns *)
(* a result or raises; a condition function is called with the state and   *)
(* returns an edge key or raises.                                          *)
(***************************************************************************)
VARIABLES
    wf,      \* the Workflow: nodes, edges, conditional_edges, entry_point
    wfRun,   \* the frame of Workflow.execute: pc, state, current_node, outcome
    wfLog    \* history: the last handler that returned, and how the walk went on;
             \* the initial state, the last result of every node, the nodes whose
             \* handler was called and how many calls there were (counted up to
             \* MaxVisits)

wfVars == <<wf, wfRun, wfLog>>

\* Largest number of add_edge calls
MaxEdges == 2
\* Largest number of nodes with a conditional edge
MaxRouters == 1
\* Largest number of handler calls counted
MaxVisits == 3
WfNodes == {"n1", "n2"}

WfKeys == {"k1", "k2"}

WfResults == 1..MaxResult

\* The end sentinel
End == "__end__"

\* entry_point = None
NoEntry == ""

\* The edge_mapping arguments of add_conditional_edge: "k2" is never mapped
WfMappings == UNION {[keys -> WfNodes \cup {End}] : keys \in SUBSET {"k1"}}

\* The initial_state arguments of execute: None, {} or {"last_result": 1}
WfInitialStates == {EmptyDict, DictSet(EmptyDict, "last_result", 1)}

\* No handler has returned yet
WfNoStep == [node |-> NoEntry, result |-> None, routed |-> FALSE,
             router_state |-> EmptyDict, edge_key |-> "", next |-> NoEntry,
             initial |-> EmptyDict, results |-> EmptyDict, called |-> {},
             visits |-> 0]

WfInit ==
    /\ wf = [nodes |-> {}, edges |-> EmptyDict, conditional_edges |-> EmptyDict,
             entry_point |-> NoEntry]
    /\ wfRun = [pc |-> "build", state |-> EmptyDict, current_node |-> NoEntry,
                outcome |-> "none"]
    /\ wfLog = WfNoStep

\* Workflow.add_node
WfAddNode(name) ==
    /\ wfRun.pc = "build"
    /\ wf' = [wf EXCEPT !.nodes = @ \cup {name}]
    /\ UNCHANGED <<wfRun, wfLog>>

WfEdgeCount == LET RECURSIVE Sum(_)
                   Sum(S) == IF S = {} THEN 0
                             ELSE LET n == CHOOSE n \in S : TRUE
                                  IN Len(wf.edges[n]) + Sum(S \ {n})
               IN Sum(DOMAIN wf.edges)

\* Workflow.add_edge
WfAddEdge(from_node, to_node) ==
    /\ wfRun.pc = "build"
    /\ WfEdgeCount < MaxEdges
    /\ wf' = [wf EXCEPT !.edges =
                 DictSet(@, from_node,
                         IF from_node \in DOMAIN @ THEN Append(@[from_node], to_node)
                         ELSE <<to_node>>)]
    /\ UNCHANGED <<wfRun, wfLog>>

\* Workflow.add_conditional_edge: the router of from_node is replaced
WfAddConditionalEdge(from_node, edge_mapping) ==
    /\ wfRun.pc = "build"
    /\ \/ from_node \in DOMAIN wf.conditional_edges
       \/ Cardinality(DOMAIN wf.conditional_edges) < MaxRouters
    /\ wf' = [wf EXCEPT !.conditional_edges = DictSet(@, from_node, edge_mapping)]
    /\ UNCHANGED <<wfRun, wfLog>>

\* Workflow.set_entry_point
WfSetEntryPoint(node_name) ==
    /\ wfRun.pc = "build"
    /\ wf' = [wf EXCEPT !.entry_point = node_name]
    /\ UNCHANGED <<wfRun, wfLog>>

\* conditional_router: edge_mapping.get(edge_key, "__end__")
conditional_router_key(edge_mapping, edge_key) ==
    IF edge_key \in DOMAIN edge_mapping THEN edge_mapping[edge_key] ELSE edge_key

conditional_router(edge_mapping, edge_key) ==
    IF edge_key \in DOMAIN edge_mapping THEN edge_mapping[edge_key] ELSE End

\* next_nodes[0] if next_nodes else "__end__"
last_successor(next_nodes) ==
    IF next_nodes # <<>> THEN next_nodes[Len(next_nodes)] ELSE End

first_successor(next_nodes) ==
    IF next_nodes # <<>> THEN next_nodes[1] ELSE End

\* "Determine next node": edge_key is what the condition function of
\* current_node returns for the state
next_node_edges_first(current_node, edge_key) ==
    IF current_node \in DOMAIN wf.edges
    THEN first_successor(wf.edges[current_node])
    ELSE IF current_node \in DOMAIN wf.conditional_edges
    THEN conditional_router(wf.conditional_edges[current_node], edge_key)
    ELSE End

next_node(current_node, edge_key) ==
    IF current_node \in DOMAIN wf.conditional_edges
    THEN conditional_router(wf.conditional_edges[current_node], edge_key)
    ELSE IF current_node \in DOMAIN wf.edges
    THEN first_successor(wf.edges[current_node])
    ELSE End

\* "Update state"
update_state(state, current_node, result) ==
    DictSet(DictSet(state, "last_result", result), current_node \o "_result", result)

\* The head of the while loop with current_node = node, up to the next await
WfVisit_lenient(run, node) ==
    IF node = End \/ node \notin wf.nodes
    THEN [run EXCEPT !.pc = "done", !.outcome = "returned", !.current_node = node]
    ELSE [run EXCEPT !.pc = "node", !.current_node = node]

WfVisit(run, node) ==
    IF node = End THEN [run EXCEPT !.pc = "done", !.outcome = "returned",
                                   !.current_node = node]
    ELSE IF node \notin wf.nodes
    THEN [run EXCEPT !.pc = "done", !.outcome = "ValueError", !.current_node = node]
    ELSE [run EXCEPT !.pc = "node", !.current_node = node]

\* The history once the walk is at run: a handler is called when the walk
\* goes on at a registered node
WfCalled(log, run) ==
    IF run.pc = "node"
    THEN [log EXCEPT !.called = @ \cup {run.current_node},
                     !.visits = IF @ < MaxVisits THEN @ + 1 ELSE @]
    ELSE log

\* Workflow.execute(initial_state) up to its first await
WfExecute(initial_state) ==
    /\ wfRun.pc = "build"
    /\ wfRun' = IF wf.entry_point = NoEntry
                THEN [wfRun EXCEPT !.pc = "done", !.outcome = "ValueError"]
                ELSE WfVisit([wfRun EXCEPT !.state = initial_state], wf.entry_point)
    /\ wfLog' = IF wf.entry_point = NoEntry THEN wfLog
                ELSE WfCalled([wfLog EXCEPT !.initial = initial_state], wfRun')
    /\ UNCHANGED wf

\* The handler of current_node returned result; the condition function, when
\* current_node has one, was called with the updated state and returned
\* edge_key
WfNodeReturn(result, edge_key) ==
    /\ wfRun.pc = "node"
    /\ LET current_node == wfRun.current_node
           state == update_state(wfRun.state, current_node, result)
           next == next_node(current_node, edge_key)
           routed == current_node \in DOMAIN wf.conditional_edges
       IN /\ wfRun' = WfVisit([wfRun EXCEPT !.state = state], next)
          /\ wfLog' = WfCalled(
                          [wfLog EXCEPT !.node = current_node, !.result = result,
                              !.routed = routed,
                              !.router_state = IF routed THEN state ELSE EmptyDict,
                              !.edge_key = IF routed THEN edge_key ELSE "",
                              !.next = next,
                              !.results = DictSet(@, current_node, result)],
                          wfRun')
    /\ UNCHANGED wf

\* The handler of current_node returned result and the condition function
\* of current_node raised: the exception leaves execute
WfConditionRaise(result) ==
    /\ wfRun.pc = "node"
    /\ wfRun.current_node \in DOMAIN wf.conditional_edges
    /\ wfRun' = [wfRun EXCEPT !.pc = "done", !.outcome = "condition_error",
                    !.state = update_state(@, wfRun.current_node, result)]
    /\ wfLog' = [wfLog EXCEPT !.results = DictSet(@, wfRun.current_node, result)]
    /\ UNCHANGED wf

\* The handler of current_node raised: the exception leaves execute
WfNodeRaise ==
    /\ wfRun.pc = "node"
    /\ wfRun' = [wfRun EXCEPT !.pc = "done", !.outcome = "handler_error"]
    /\ UNCHANGED <<wf, wfLog>>

(***************************************************************************)
(*                       Properties of the Workflow                        *)
(***************************************************************************)
\* C13: when the node whose handler returned has both a conditional router
\* and unconditional edges, the router is called with the state that already
\* holds this node's result (under last_result and <node>_result), the walk
\* goes on at the node the router chose, and the edges are ignored.
C13_RouterPrecedence ==
    LET node == wfLog.node
    IN (node \in DOMAIN wf.conditional_edges /\ node \in DOMAIN wf.edges) =>
          /\ wfLog.routed
          /\ {"last_result", node \o "_result"} \subseteq DOMAIN wfLog.router_state
          /\ wfLog.router_state["last_result"] = wfLog.result
          /\ wfLog.router_state[node \o "_result"] = wfLog.result
          /\ wfLog.next = IF wfLog.edge_key \in DOMAIN wf.conditional_edges[node]
                          THEN wf.conditional_edges[node][wfLog.edge_key]
                          ELSE End
          /\ wfRun.current_node = wfLog.next

\* n1 has the edge n1 -> n1 and a router mapping k1 to n2; its handler
\* returned 2 on a state whose last_result was 1, the condition returned k1
\* and the walk is at n2
C13_Witness ==
    /\ wfLog.node = "n1"
    /\ "n1" \in DOMAIN wf.edges
    /\ wf.edges["n1"] = <<"n1">>
    /\ "n1" \in DOMAIN wf.conditional_edges
    /\ wfLog.edge_key = "k1"
    /\ wfLog.result = 2
    /\ wfLog.router_state = update_state(DictSet(EmptyDict, "last_result", 1), "n1", 2)
    /\ wfLog.next = "n2"
    /\ wfRun.pc = "node"
    /\ wfRun.current_node = "n2"

\* C14: when the condition function returns a key that the edge mapping does
\* not hold, the walk goes to the end sentinel: execute returns the state
\* accumulated so far, raises nothing and awaits no further handler.
C14_UnmappedKeyEnds ==
    (wfLog.routed /\ wfLog.edge_key \notin DOMAIN wf.conditional_edges[wfLog.node]) =>
        /\ wfLog.next = End
        /\ wfRun.current_node = End
        /\ wfRun.pc = "done"
        /\ wfRun.outcome = "returned"
        /\ wfRun.state = wfLog.router_state

\* The router of n1 maps k1 to n2, and n2 is a node; the condition returned
\* k2 and execute returned the state with the result of n1
C14_Witness ==
    /\ wfLog.node = "n1"
    /\ wfLog.routed
    /\ wf.conditional_edges["n1"] = DictSet(EmptyDict, "k1", "n2")
    /\ "n2" \in wf.nodes
    /\ wfLog.edge_key = "k2"
    /\ wfRun.pc = "done"
    /\ wfRun.outcome = "returned"
    /\ wfRun.state = update_state(EmptyDict, "n1", 1)

\* Following the first unconditional edge k times from node stays on
\* registered nodes that have an edge and no router
RECURSIVE WfFollowsEdges(_, _)
WfFollowsEdges(node, k) ==
    IF k = 0 THEN TRUE
    ELSE /\ node \in wf.nodes
         /\ node \notin DOMAIN wf.conditional_edges
         /\ node \in DOMAIN wf.edges
         /\ WfFollowsEdges(wf.edges[node][1], k - 1)

\* The successors followed from the entry point form a cycle: more of them
\* are followed than there are nodes
WfCycle ==
    /\ wf.entry_point # NoEntry
    /\ WfFollowsEdges(wf.entry_point, Cardinality(wf.nodes) + 1)

\* The initial state with the result of every handler that returned, under
\* <node>_result, and the last of them under last_result
WfAccumulated ==
    LET results == {node \o "_result" : node \in DOMAIN wfLog.results}
        last == IF wfLog.results = EmptyDict THEN {} ELSE {"last_result"}
    IN [k \in DOMAIN wfLog.initial \cup last \cup results |->
           IF k \in results
           THEN wfLog.results[CHOOSE node \in DOMAIN wfLog.results :
                                 k = node \o "_result"]
           ELSE IF k \in last THEN wfLog.result
           ELSE wfLog.initial[k]]

\* C26 as stated: execute terminates only when the walk reaches the end
\* sentinel, and then it returns the accumulated state; there is no step
\* cap, so when the followed successors form a cycle execute never returns.
C26_TerminatesAtEnd ==
    /\ wfRun.pc = "done" =>
          /\ wfRun.current_node = End
          /\ wfRun.outcome = "returned"
          /\ wfRun.state = WfAccumulated
    /\ (WfCycle /\ wfRun.pc # "build") => wfRun.outcome # "returned"

\* C26 as amended: execute returns only when the walk reaches the end
\* sentinel, and then it returns the accumulated state; it ends otherwise
\* only by raising (no entry point, a followed node that is not registered,
\* a handler or a condition function that raised); there is no step cap, so
\* when the followed successors form a cycle execute never returns and ends
\* only if a handler raises.
C26_ReturnsAtEnd ==
    /\ (wfRun.pc = "done" /\ wfRun.outcome = "returned") =>
          /\ wfRun.current_node = End
          /\ wfRun.state = WfAccumulated
    /\ (wfRun.pc # "build" /\ wfRun.current_node = End) =>
          /\ wfRun.pc = "done"
          /\ wfRun.outcome = "returned"
    /\ (wfRun.pc = "done" /\ wfRun.outcome # "returned") =>
          /\ wfRun.outcome \in {"ValueError", "handler_error", "condition_error"}
          /\ wfRun.outcome = "ValueError" <=>
                \/ wf.entry_point = NoEntry
                \/ wfRun.current_node \notin wf.nodes
          /\ wfRun.outcome = "condition_error" =>
                wfRun.current_node \in DOMAIN wf.conditional_edges
    /\ wfRun.pc = "node" => wfRun.current_node \in wf.nodes
    /\ (WfCycle /\ wfRun.pc # "build") =>
          /\ wfRun.outcome \in {"none", "handler_error"}
          /\ wfRun.current_node \in wf.nodes

\* The walk n1, n2, end: execute returned the initial state with both results
C26_Witness ==
    /\ wfRun.pc = "done"
    /\ wfRun.outcome = "returned"
    /\ wfLog.initial = DictSet(EmptyDict, "last_result", 1)
    /\ wfLog.called = {"n1", "n2"}
    /\ wfLog.node = "n2"
    /\ wfLog.visits = 2
    /\ wfRun.state = DictSet(DictSet(DictSet(EmptyDict, "last_result", 2),
                                     "n1_result", 1), "n2_result", 2)

\* The cycle n1, n2, n1, ...: more handlers were called than there are nodes
\* and the next one is awaited
C26_WitnessCycle ==
    /\ WfCycle
    /\ wf.nodes = {"n1", "n2"}
    /\ wf.entry_point = "n1"
    /\ "n1" \in DOMAIN wf.edges
    /\ wf.edges["n1"] = <<"n2">>
    /\ wfLog.visits = MaxVisits
    /\ wfRun.pc = "node"

\* An edge leads to a node that was never added: execute raised
C26_WitnessNotFound ==
    /\ wfRun.pc = "done"
    /\ wfRun.outcome = "ValueError"
    /\ wfLog.called = {"n1"}
    /\ wfRun.current_node = "n2"

\* The nodes the walk can go on to after the handler of node returned: what
\* the router can choose when there is one, else the first unconditional
\* successor, else the end sentinel
WfFollowed(node) ==
    IF node \in DOMAIN wf.conditional_edges
    THEN {wf.conditional_edges[node][k] : k \in DOMAIN wf.conditional_edges[node]}
         \cup {End}
    ELSE IF node \in DOMAIN wf.edges /\ wf.edges[node] # <<>>
    THEN {wf.edges[node][1]}
    ELSE {End}

\* The nodes reached from the entry point through followed successors
RECURSIVE WfReached(_)
WfReached(S) ==
    LET T == S \cup UNION {WfFollowed(node) : node \in S \cap wf.nodes}
    IN IF T = S THEN S ELSE WfReached(T)

\* C30: when the node whose handler returned has several unconditional
\* successors and no router, the walk goes on at the first one registered;
\* the handler of a node is called only if the node is reached from the entry
\* point through followed successors, so the other successors are called
\* only when another path reaches them.
C30_FirstSuccessorOnly ==
    /\ (/\ wfLog.node # NoEntry
        /\ wfLog.node \notin DOMAIN wf.conditional_edges
        /\ wfLog.node \in DOMAIN wf.edges
        /\ Len(wf.edges[wfLog.node]) > 1) =>
           /\ wfLog.next = wf.edges[wfLog.node][1]
           /\ wfRun.current_node = wf.edges[wfLog.node][1]
    /\ wfRun.pc # "build" => wfLog.called \subseteq WfReached({wf.entry_point})

\* n1 has the successors n1 and n2 in this order and no router: the handler
\* of n1 was called again and again, that of n2 never
C30_Witness ==
    /\ wf.nodes = {"n1", "n2"}
    /\ wf.entry_point = "n1"
    /\ wf.conditional_edges = EmptyDict
    /\ DOMAIN wf.edges = {"n1"}
    /\ wf.edges["n1"] = <<"n1", "n2">>
    /\ wfLog.visits = MaxVisits
    /\ wfLog.called = {"n1"}

\* n1 has the successors end and n2: execute returned after n1
C30_WitnessEnd ==
    /\ wf.nodes = {"n1", "n2"}
    /\ wf.entry_point = "n1"
    /\ wf.conditional_edges = EmptyDict
    /\ DOMAIN wf.edges = {"n1"}
    /\ wf.edges["n1"] = <<End, "n2">>
    /\ wfRun.pc = "done"
    /\ wfRun.outcome = "returned"
    /\ wfLog.called = {"n1"}

(***************************************************************************)
(*                               RateLimiter                               *)
(* time.time() is read from a clock that never goes back; it advances in   *)
(* steps of 1 second and of one second less than the window.               *)
(***************************************************************************)
VARIABLES
    rl,       \* the RateLimiter: requests_per_minute, request_timestamps
    rlNow,    \* time.time(), and the number of times the clock has advanced
    rlHist    \* history: the times of the calls that returned true, the number
              \* of calls that returned false, and the last call

rlVars == <<rl, rlNow, rlHist>>

\* Largest requests_per_minute
MaxCap == 2
\* Largest number of check_request calls
MaxChecks == 4
\* Largest number of times the clock advances
MaxTicks == 4

\* The length of the window in seconds: minute_ago = now - 60
Window == 60

RLSteps == {1, Window - 1}

RLInit ==
    /\ rl \in [requests_per_minute : 0..MaxCap, request_timestamps : {<<>>}]
    /\ rlNow = [time |-> 0, ticks |-> 0]
    /\ rlHist = [accepted |-> <<>>, rejected |-> 0,
                 last |-> [now |-> 0, result |-> FALSE, pre |-> <<>>, post |-> <<>>,
                           before |-> <<>>]]

\* "Remove old timestamps"
fresh_all(request_timestamps, now) == request_timestamps

fresh(request_timestamps, now) ==
    LET minute_ago == now - Window
        Kept(ts) == ts > minute_ago
    IN SelectSeq(request_timestamps, Kept)

\* RateLimiter.check_request
RLCheckRequest ==
    /\ Len(rlHist.accepted) + rlHist.rejected < MaxChecks
    /\ LET now == rlNow.time
           kept == fresh(rl.request_timestamps, now)
           result == ~(Len(kept) >= rl.requests_per_minute)
           post == IF result THEN Append(kept, now) ELSE kept
       IN /\ rl' = [rl EXCEPT !.request_timestamps = post]
          /\ rlHist' = [accepted |-> IF result THEN Append(rlHist.accepted, now)
                                     ELSE rlHist.accepted,
                        rejected |-> IF result THEN rlHist.rejected
                                     ELSE rlHist.rejected + 1,
                        last |-> [now |-> now, result |-> result,
                                  pre |-> rl.request_timestamps, post |-> post,
                                  before |-> rlHist.accepted]]
    /\ UNCHANGED rlNow

\* Time passes
RLTick(d) ==
    /\ rlNow.ticks < MaxTicks
    /\ rlNow' = [time |-> rlNow.time + d, ticks |-> rlNow.ticks + 1]
    /\ UNCHANGED <<rl, rlHist>>

(***************************************************************************)
(*                      Properties of the RateLimiter                      *)
(***************************************************************************)
\* The calls that returned true less than d seconds before the last call
RLWithin(d) == {j \in 1..Len(rlHist.last.before) :
                   rlHist.last.now - rlHist.last.before[j] < d}

\* C15: with cap N, a call made when N calls returned true within the 60
\* seconds before it returns false and leaves the recorded timestamps as
\* they are; a call made when fewer than N calls returned true in the 60
\* seconds before it returns true and is recorded; and a call made when every
\* recorded timestamp is more than 60 seconds old returns true again.
C15_SlidingWindow ==
    LET call == rlHist.last
        N == rl.requests_per_minute
    IN (Len(rlHist.accepted) + rlHist.rejected > 0) =>
          /\ Cardinality(RLWithin(Window)) >= N =>
                /\ ~call.result
                /\ call.post = call.pre
          /\ Cardinality(RLWithin(Window + 1)) < N =>
                /\ call.result
                /\ call.post # <<>>
                /\ call.post[Len(call.post)] = call.now
                /\ rl.request_timestamps = call.post
          /\ (N >= 1 /\ \A i \in 1..Len(call.pre) : call.now - call.pre[i] > Window) =>
                call.result

\* Cap 2: two calls returned true, a third was refused, and after more than
\* 60 seconds a call found both timestamps too old and returned true
C15_Witness ==
    /\ rl.requests_per_minute = 2
    /\ rlHist.rejected >= 1
    /\ Len(rlHist.accepted) = 3
    /\ rlHist.last.result
    /\ Len(rlHist.last.pre) = 2
    /\ \A i \in 1..2 : rlHist.last.now - rlHist.last.pre[i] > Window
    /\ rl.request_timestamps = <<rlHist.last.now>>

\* Cap 2: the third call within 60 seconds was refused and not recorded
C15_WitnessRefused ==
    /\ rl.requests_per_minute = 2
    /\ ~rlHist.last.result
    /\ Len(rlHist.last.pre) = 2
    /\ rlHist.last.now - rlHist.last.pre[1] = Window - 1
    /\ rl.request_timestamps = rlHist.last.pre

(***************************************************************************)
(*                           Session and State                             *)
(* A key is the sequence of its parts, a scope prefix being one part:      *)
(* "temp:a" is <<"temp:", "a">>.  A datetime is a number of clock ticks;   *)
(* datetime.utcnow() never returns less than it returned before.           *)
(***************************************************************************)
VARIABLES
    sess,       \* the Session: state, events, artifacts, created_at, updated_at,
                \* is_active; it is the object the InMemorySessionService holds
                \* and get_session returns
    sessHist    \* history: the last operation, whether it raised, the datetime
                \* it read and the keys it removed; the keys given to
                \* set_user_state with the last value given; every key written,
                \* prefix included, with the last value written

sessVars == <<sess, sessHist>>

\* Largest value stored in the state
MaxValue == 1
\* Largest datetime
MaxClock == 2
\* Largest number of events, and of artifacts, added to the session
MaxItems == 1
\* Largest value stored by the scoped sets
MaxScopeValue == 2

\* The key arguments
SessKeys == {<<"a">>, <<"temp:", "a">>}

SessValues == 1..MaxValue

\* A value orjson.dumps rejects
NotSerializable == -1

SessInit ==
    /\ sess \in [state : {EmptyDict}, events : {<<>>}, artifacts : {<<>>},
                  created_at : {0}, updated_at : {0, 1}, is_active : {TRUE}]
    /\ sessHist = [op |-> "init", raised |-> FALSE, now |-> None, removed |-> {},
                   user |-> EmptyDict, written |-> EmptyDict]

\* str.startswith
startswith_anywhere(k, prefix) == \E i \in 1..Len(k) : k[i] = prefix

startswith(k, prefix) == Len(k) >= 1 /\ k[1] = prefix

\* State.clear_prefix
clear_prefix(data, prefix) ==
    [k \in {k \in DOMAIN data : ~startswith(k, prefix)} |-> data[k]]

\* State.get_by_prefix
get_by_prefix(data, prefix) ==
    [k \in {k \in DOMAIN data : startswith(k, prefix)} |-> data[k]]

\* ["user:", "app:", "temp:"], the prefixes get_session_state leaves out
scope_prefixes_no_temp == {"user:", "app:"}

scope_prefixes == {"user:", "app:", "temp:"}

\* State.get_session_state
get_session_state(data) ==
    [k \in {k \in DOMAIN data : ~\E p \in scope_prefixes : startswith(k, p)}
        |-> data[k]]

\* The readings datetime.utcnow() can give
utcnow == sess.updated_at..MaxClock

\* State.set followed by the assignment of updated_at: set_state,
\* set_user_state and set_app_state with their prefix.  State.set raises
\* ValueError for a value that is not JSON-serializable.
touch_no(session, now) == session

touch(session, now) == [session EXCEPT !.updated_at = now]

SessSet(op, prefix, key, value, now) ==
    /\ sessHist' = [op |-> op, raised |-> value = NotSerializable,
                    now |-> IF value = NotSerializable THEN None ELSE now,
                    removed |-> {},
                    user |-> IF op = "set_user_state" /\ value # NotSerializable
                             THEN DictSet(sessHist.user, key, value)
                             ELSE sessHist.user,
                    written |-> IF value # NotSerializable
                                THEN DictSet(sessHist.written, prefix \o key, value)
                                ELSE sessHist.written]
    /\ sess' = IF value = NotSerializable THEN sess
               ELSE touch([sess EXCEPT !.state = DictSet(@, prefix \o key, value)], now)

\* Session.set_state
SessSetState(key, value, now) == SessSet("set_state", <<>>, key, value, now)

\* Session.set_user_state
SessSetUserState(key, value, now) ==
    SessSet("set_user_state", <<"user:">>, key, value, now)

\* Session.set_app_state
SessSetAppState(key, value, now) ==
    SessSet("set_app_state", <<"app:">>, key, value, now)

\* Session.set_temp_state
SessSetTempState(key, value) ==
    /\ sessHist' = [op |-> "set_temp_state", raised |-> value = NotSerializable,
                    now |-> None, removed |-> {}, user |-> sessHist.user,
                    written |-> IF value # NotSerializable
                                THEN DictSet(sessHist.written, <<"temp:">> \o key, value)
                                ELSE sessHist.written]
    /\ sess' = IF value = NotSerializable THEN sess
               ELSE [sess EXCEPT !.state = DictSet(@, <<"temp:">> \o key, value)]

\* Session.clear_temp_state
SessClearTempState ==
    /\ sess' = [sess EXCEPT !.state = clear_prefix(@, "temp:")]
    /\ sessHist' = [op |-> "clear_temp_state", raised |-> FALSE, now |-> None,
                    removed |-> DOMAIN sess.state \ DOMAIN sess'.state,
                    user |-> sessHist.user,
                    written |-> [k \in {k \in DOMAIN sessHist.written : k[1] # "temp:"}
                                   |-> sessHist.written[k]]]

\* Session.add_event
SessAddEvent(event, now) ==
    /\ Len(sess.events) < MaxItems
    /\ sess' = touch([sess EXCEPT !.events = Append(@, event)], now)
    /\ sessHist' = [sessHist EXCEPT !.op = "add_event", !.raised = FALSE, !.now = now,
                                    !.removed = {}]

\* Session.add_artifact
SessAddArtifact(artifact, now) ==
    /\ Len(sess.artifacts) < MaxItems
    /\ sess' = touch([sess EXCEPT !.artifacts = Append(@, artifact)], now)
    /\ sessHist' = [sessHist EXCEPT !.op = "add_artifact", !.raised = FALSE, !.now = now,
                                    !.removed = {}]

\* Session.close
SessClose(now) ==
    /\ sess' = touch([sess EXCEPT !.is_active = FALSE], now)
    /\ sessHist' = [sessHist EXCEPT !.op = "close", !.raised = FALSE, !.now = now,
                                    !.removed = {}]

(***************************************************************************)
(*                       Properties of the Session                         *)
(***************************************************************************)
\* C16: set_temp_state leaves updated_at as it was; a set_state,
\* set_user_state or set_app_state that stores its value moves updated_at
\* forward to the datetime of the call; clear_temp_state removes every key
\* that starts with temp: and leaves every other key with its value.
C16_SessionFrame ==
    [][/\ sessHist'.op = "set_temp_state" => sess'.updated_at = sess.updated_at
       /\ (sessHist'.op \in {"set_state", "set_user_state", "set_app_state"}
              /\ ~sessHist'.raised) =>
             /\ sess'.updated_at = sessHist'.now
             /\ sess'.updated_at >= sess.updated_at
       /\ sessHist'.op = "clear_temp_state" =>
             /\ DOMAIN sess'.state = {k \in DOMAIN sess.state : k[1] # "temp:"}
             /\ \A k \in DOMAIN sess'.state : sess'.state[k] = sess.state[k]]_sessVars

\* clear_temp_state removed temp:a and temp:temp:a and left a and
\* user:temp:a, after updated_at had moved forward
C16_Witness ==
    /\ sessHist.op = "clear_temp_state"
    /\ sessHist.removed = {<<"temp:", "a">>, <<"temp:", "temp:", "a">>}
    /\ DOMAIN sess.state = {<<"a">>, <<"user:", "temp:", "a">>}
    /\ sess.updated_at = MaxClock

\* set_temp_state stored temp:a on a session whose updated_at had moved
\* forward before
C16_WitnessTemp ==
    /\ sessHist.op = "set_temp_state"
    /\ ~sessHist.raised
    /\ <<"temp:", "a">> \in DOMAIN sess.state
    /\ sess.updated_at = MaxClock

\* C24 as stated: after any sequence of session-, user-, app- and
\* temp-scoped sets, for every key k set through the user-scoped setter
\* get_by_prefix("user:") contains "user:"+k with the value set, that key is
\* absent from get_session_state(), and get_session_state() contains
\* exactly the keys that carry none of the prefixes user:, app:, temp:.
C24_StateScoping ==
    /\ \A k \in DOMAIN sessHist.user :
          LET key == <<"user:">> \o k
          IN /\ key \in DOMAIN get_by_prefix(sess.state, "user:")
             /\ get_by_prefix(sess.state, "user:")[key] = sessHist.user[k]
             /\ key \notin DOMAIN get_session_state(sess.state)
    /\ DOMAIN get_session_state(sess.state) =
          {k \in DOMAIN sessHist.written : k[1] \notin {"user:", "app:", "temp:"}}
    /\ \A k \in DOMAIN get_session_state(sess.state) :
          get_session_state(sess.state)[k] = sessHist.written[k]

\* C24 as amended: the value under "user:"+k is the last one written under
\* that key, by the user-scoped setter with k or by the session-scoped
\* setter with the key "user:"+k.
C24_StateScopingLastWritten ==
    /\ \A k \in DOMAIN sessHist.user :
          LET key == <<"user:">> \o k
          IN /\ key \in DOMAIN get_by_prefix(sess.state, "user:")
             /\ get_by_prefix(sess.state, "user:")[key] = sessHist.written[key]
             /\ key \notin DOMAIN get_session_state(sess.state)
    /\ DOMAIN get_session_state(sess.state) =
          {k \in DOMAIN sessHist.written : k[1] \notin {"user:", "app:", "temp:"}}
    /\ \A k \in DOMAIN get_session_state(sess.state) :
          get_session_state(sess.state)[k] = sessHist.written[k]

\* set_user_state("a", 2) and set_user_state("user:a", 1) after sets in the
\* three other scopes: user:a and user:user:a are found under user:, and
\* the session state is the key a alone
C24_Witness ==
    /\ DOMAIN sessHist.user = {<<"a">>, <<"user:", "a">>}
    /\ sessHist.user[<<"a">>] = 2
    /\ get_by_prefix(sess.state, "user:") =
          DictSet(DictSet(EmptyDict, <<"user:", "a">>, 2), <<"user:", "user:", "a">>, 1)
    /\ <<"app:", "a">> \in DOMAIN sess.state
    /\ <<"temp:", "a">> \in DOMAIN sess.state
    /\ get_session_state(sess.state) = DictSet(EmptyDict, <<"a">>, 1)

\* set_user_state("a", 1), then set_state("user:a", 2): user:a holds 2
C24_WitnessOverwritten ==
    /\ sessHist.op = "set_state"
    /\ sessHist.user = DictSet(EmptyDict, <<"a">>, 1)
    /\ sess.state = DictSet(EmptyDict, <<"user:", "a">>, 2)

\* The write operations of a Session
SessWrites == {"set_state", "set_user_state", "set_app_state", "add_event",
               "add_artifact"}

VARIABLES
    dl      \* the last call of _calculate_delay: its arguments and its result

dlVars == <<dl>>

\* Largest max_delay, in seconds
MaxLongDelay == 8
\* Largest attempt number
MaxDelayAttempt == 4

DelayConfigs == [max_attempts : {1},
                 base_delay : 1..MaxBaseDelay,
                 max_delay : 1..MaxLongDelay,
                 backoff_strategy : {"fixed", "linear", "exponential"},
                 jitter_type : {"none", "full", "equal", "decorrelated"},
                 multiplier : 2..MaxMultiplier,
                 retry_on_result : {FALSE}]

DelayIdle == dl = [attempt |-> 0, previous_delay |-> 0, delay |-> 0]

DelayInit ==
    /\ rpConfig \in DelayConfigs
    /\ rp = [total_calls |-> 0, total_retries |-> 0,
             total_successes |-> 0, total_failures |-> 0]
    /\ rpRun = [pc |-> "idle", attempt |-> 0, last_exception |-> None,
                previous_delay |-> 0, outcome |-> "none", cause |-> None,
                result |-> None]
    /\ rpHist = [pre |-> rp, attempts |-> <<>>, delays |-> <<>>, others |-> 0]
    /\ DelayIdle

\* self._calculate_delay(attempt, previous_delay) returned delay
DelayCalculate(attempt, previous_delay) ==
    /\ dl.attempt = 0
    /\ \E delay \in calculate_delay(attempt, previous_delay) :
          dl' = [attempt |-> attempt, previous_delay |-> previous_delay,
                 delay |-> delay]
    /\ UNCHANGED rpVars

(***************************************************************************)
(*                     Properties of _calculate_delay                      *)
(***************************************************************************)
\* base_delay * multiplier^(n-1), by repeated multiplication
RECURSIVE Exponential(_)
Exponential(n) == IF n = 1 THEN rpConfig.base_delay
                  ELSE rpConfig.multiplier * Exponential(n - 1)

\* min(base_delay * multiplier^(n-1), max_delay)
ExponentialCapped(n) == IF Exponential(n) <= rpConfig.max_delay THEN Exponential(n)
                        ELSE rpConfig.max_delay

\* C18: with the exponential strategy and no jitter the delay for attempt n
\* is min(base_delay * multiplier^(n-1), max_delay); with base_delay 1 and
\* multiplier 2 the delays for attempts 1..4 are 1, 2, 4, 8, each capped at
\* max_delay.
C18_ExponentialDelay ==
    (dl.attempt > 0 /\ rpConfig.backoff_strategy = "exponential"
       /\ rpConfig.jitter_type = "none") =>
        /\ dl.delay = ExponentialCapped(dl.attempt)
        /\ (rpConfig.base_delay = 1 /\ rpConfig.multiplier = 2 /\ dl.attempt <= 4) =>
              dl.delay = IF <<1, 2, 4, 8>>[dl.attempt] <= rpConfig.max_delay
                         THEN <<1, 2, 4, 8>>[dl.attempt]
                         ELSE rpConfig.max_delay

\* base_delay 1, multiplier 2, max_delay 8: the delay for attempt 4 is 8
C18_Witness ==
    /\ rpConfig.backoff_strategy = "exponential"
    /\ rpConfig.jitter_type = "none"
    /\ rpConfig.base_delay = 1
    /\ rpConfig.multiplier = 2
    /\ rpConfig.max_delay = 8
    /\ dl.attempt = 4
    /\ dl.delay = 8

\* base_delay 1, multiplier 2, max_delay 3: the delay for attempt 3 is capped
C18_WitnessCapped ==
    /\ rpConfig.backoff_strategy = "exponential"
    /\ rpConfig.jitter_type = "none"
    /\ rpConfig.base_delay = 1
    /\ rpConfig.multiplier = 2
    /\ rpConfig.max_delay = 3
    /\ dl.attempt = 3
    /\ dl.delay = 3

\* C19: with the exponential strategy and full jitter every delay sampled
\* for attempt n lies in [0, min(base_delay * multiplier^(n-1), max_delay)].
C19_FullJitterRange ==
    (dl.attempt > 0 /\ rpConfig.backoff_strategy = "exponential"
       /\ rpConfig.jitter_type = "full") =>
        /\ 0 <= dl.delay
        /\ dl.delay <= ExponentialCapped(dl.attempt)

\* base_delay 2, max_delay 5: the delay sampled for attempt 3 is the whole
\* capped delay
C19_Witness ==
    /\ rpConfig.backoff_strategy = "exponential"
    /\ rpConfig.jitter_type = "full"
    /\ rpConfig.base_delay = 2
    /\ rpConfig.max_delay = 5
    /\ dl.attempt = 3
    /\ dl.delay = 5

\* The delay sampled is 0
C19_WitnessZero ==
    /\ rpConfig.backoff_strategy = "exponential"
    /\ rpConfig.jitter_type = "full"
    /\ dl.attempt = 2
    /\ dl.delay = 0

(***************************************************************************)
(*                                  Agent                                  *)
(* One Agent and one call of execute, cut at its awaits.  A hook is the    *)
(* number it was registered under; the guardrail engine and the LLM client *)
(* are awaited collaborators that return or raise.  Every exception here   *)
(* is an Exception, the class the handler of execute catches.              *)
(***************************************************************************)
VARIABLES
    ag,       \* the Agent: status, state, the hook lists, the collaborators
    agRun,    \* the call of execute: where it is suspended, and its outcome
    agLog     \* history: the calls made and the assignments done, in order

agVars == <<ag, agRun, agLog>>

\* Largest number of on-start hooks, and of on-complete hooks
MaxHooks == 1
\* Largest number of on-error hooks
MaxErrorHooks == 2
\* Largest result of the LLM client and of the output guards
MaxAgResult == 2
AgHooks == 1..MaxHooks
AgErrorHooks == 1..MaxErrorHooks
AgResults == 1..MaxAgResult
NoException == ""

\* State(): data and version
AgStates == {[data |-> data, version |-> 1] :
                data \in {EmptyDict, DictSet(EmptyDict, "last_result", 1)}}

\* State.set: a new State, the data copied with the key set
State_set(state, key, value) ==
    [data |-> DictSet(state.data, key, value), version |-> state.version + 1]

\* State.get
State_get(state, key) == IF key \in DOMAIN state.data THEN state.data[key] ELSE None

AgNotRunning == [pc |-> "idle", idx |-> 0, result |-> None, e |-> NoException,
                 outcome |-> "none", value |-> None, raised |-> NoException,
                 initial |-> [data |-> EmptyDict, version |-> 1], stopped |-> FALSE,
                 stop_at |-> "none"]

\* Agent.__init__ with config.input_guards; engine_input_guards is the
\* input_guards registry of the GuardrailEngine that is attached
AgConstructed(input_guards) ==
    /\ ag \in [status : {"idle"}, state : AgStates,
                  _on_start_hooks : {<<>>}, _on_error_hooks : {<<>>},
                  _on_complete_hooks : {<<>>}, _llm_client : {FALSE},
                  _guardrail_engine : {FALSE}, engine_input_guards : {<<>>},
                  enable_guardrails : BOOLEAN, input_guards : input_guards]
    /\ agRun = AgNotRunning
    /\ agLog = <<>>

\* An Agent whose guardrail engine, once attached, is any object with
\* validate_input and validate_output
AgInit == AgConstructed({<<>>})

AgEvent(ev, hook, e, result) ==
    [ev |-> ev, hook |-> hook, e |-> e, result |-> result]

AgInSeq(hooks, hook) == \E i \in 1..Len(hooks) : hooks[i] = hook

\* Agent.set_llm_client
AgSetLLMClient ==
    /\ agRun.pc = "idle"
    /\ ~ag._llm_client
    /\ ag' = [ag EXCEPT !._llm_client = TRUE]
    /\ UNCHANGED <<agRun, agLog>>

\* Agent.set_guardrail_engine
AgSetGuardrailEngine ==
    /\ agRun.pc = "idle"
    /\ ~ag._guardrail_engine
    /\ ag' = [ag EXCEPT !._guardrail_engine = TRUE]
    /\ UNCHANGED <<agRun, agLog>>

\* Agent.on_start
AgOnStart(hook) ==
    /\ agRun.pc = "idle"
    /\ Len(ag._on_start_hooks) < MaxHooks
    /\ ~AgInSeq(ag._on_start_hooks, hook)
    /\ ag' = [ag EXCEPT !._on_start_hooks = Append(@, hook)]
    /\ UNCHANGED <<agRun, agLog>>

\* Agent.on_error
AgOnError(hook) ==
    /\ agRun.pc = "idle"
    /\ Len(ag._on_error_hooks) < MaxErrorHooks
    /\ ~AgInSeq(ag._on_error_hooks, hook)
    /\ ag' = [ag EXCEPT !._on_error_hooks = Append(@, hook)]
    /\ UNCHANGED <<agRun, agLog>>

\* Agent.on_complete
AgOnComplete(hook) ==
    /\ agRun.pc = "idle"
    /\ Len(ag._on_complete_hooks) < MaxHooks
    /\ ~AgInSeq(ag._on_complete_hooks, hook)
    /\ ag' = [ag EXCEPT !._on_complete_hooks = Append(@, hook)]
    /\ UNCHANGED <<agRun, agLog>>

\* Agent.stop; agRun.stopped: the status is the one stop assigned;
\* agRun.stop_at: "llm" once stop was called while execute was suspended in
\* the LLM call, "later" once it was called at a later place of execute or
\* after its end
AgStop ==
    /\ ag' = [ag EXCEPT !.status = "stopped"]
    /\ agRun' = [agRun EXCEPT
                    !.stopped = TRUE,
                    !.stop_at = IF agRun.pc = "llm" THEN "llm"
                                ELSE IF agRun.pc \in {"validate_output", "complete_hook",
                                                      "error_hook", "done"}
                                THEN "later" ELSE @]
    /\ UNCHANGED agLog

\* "for hook in self._on_error_hooks"
hooks_reversed(hooks) == reversed(hooks)

hooks_in_order(hooks) == hooks

\* The parts of execute between two awaits take a record of the three
\* variables to the record after them.
AgNow == [agent |-> ag, run |-> agRun, log |-> agLog]

AgRaiseToCaller(st, e) ==
    [st EXCEPT !.run.pc = "done", !.run.outcome = "raised", !.run.raised = e]

\* "except Exception as e": the status, then the first on-error hook
AgExcept(st, e) ==
    LET hooks == hooks_in_order(st.agent._on_error_hooks)
        failed == [st EXCEPT !.agent.status = "failed",
                             !.run.stopped = FALSE,
                             !.run.e = e,
                             !.log = Append(@, AgEvent("except", 0, e, None))]
    IN IF hooks = <<>> THEN AgRaiseToCaller(failed, e)
       ELSE [failed EXCEPT !.run.pc = "error_hook", !.run.idx = 1,
                           !.log = Append(@, AgEvent("on_error", hooks[1], e, None))]

\* _execute_with_llm up to its await
AgExecuteWithLLM(st) ==
    IF ~st.agent._llm_client THEN AgExcept(st, "RuntimeError")
    ELSE [st EXCEPT !.run.pc = "llm",
                    !.log = Append(@, AgEvent("complete", 0, NoException, None))]

\* execute from the end of start() to the next await
AgBuildPrompt(st) ==
    IF st.agent._guardrail_engine /\ st.agent.enable_guardrails
    THEN [st EXCEPT !.run.pc = "validate_input",
                    !.log = Append(@, AgEvent("validate_input", 0, NoException, None))]
    ELSE AgExecuteWithLLM(st)

\* execute from "Update state" to the next await
AgUpdateState(st, result) ==
    LET hooks == st.agent._on_complete_hooks
        stored == [st EXCEPT !.agent.state = State_set(@, "last_result", result),
                             !.agent.status = "completed",
                             !.run.stopped = FALSE,
                             !.run.result = result,
                             !.log = Append(@, AgEvent("set", 0, NoException, result))]
    IN IF hooks = <<>>
       THEN [stored EXCEPT !.run.pc = "done", !.run.outcome = "returned",
                           !.run.value = result]
       ELSE [stored EXCEPT !.run.pc = "complete_hook", !.run.idx = 1,
                           !.log = Append(@, AgEvent("on_complete", hooks[1],
                                                          NoException, None))]

\* execute from the return of the LLM client to the next await
AgAfterLLM(st, result) ==
    IF st.agent._guardrail_engine /\ st.agent.enable_guardrails
    THEN [st EXCEPT !.run.pc = "validate_output", !.run.result = result,
                    !.log = Append(@, AgEvent("validate_output", 0, NoException,
                                                   result))]
    ELSE AgUpdateState(st, result)

AgBecome(st) ==
    /\ ag' = st.agent
    /\ agRun' = st.run
    /\ agLog' = st.log

\* Agent.execute up to its first await: start() sets the status and calls
\* the first on-start hook
AgExecute ==
    /\ agRun.pc = "idle"
    /\ LET hooks == ag._on_start_hooks
           running == [AgNow EXCEPT !.agent.status = "running",
                                    !.run.stopped = FALSE,
                                    !.run.initial = ag.state]
       IN AgBecome(IF hooks = <<>> THEN AgBuildPrompt(running)
                   ELSE [running EXCEPT
                            !.run.pc = "start_hook", !.run.idx = 1,
                            !.log = Append(@, AgEvent("on_start", hooks[1],
                                                           NoException, None))])

\* An on-start hook returns
AgStartHookReturn ==
    /\ agRun.pc = "start_hook"
    /\ LET hooks == ag._on_start_hooks
           idx == agRun.idx + 1
       IN AgBecome(IF idx > Len(hooks) THEN AgBuildPrompt(AgNow)
                   ELSE [AgNow EXCEPT
                            !.run.idx = idx,
                            !.log = Append(@, AgEvent("on_start", hooks[idx],
                                                           NoException, None))])

\* An on-start hook raises
AgStartHookRaise ==
    /\ agRun.pc = "start_hook"
    /\ AgBecome(AgExcept(AgNow, "StartHookError"))

\* validate_input returns the prompt
AgValidateInputReturn ==
    /\ agRun.pc = "validate_input"
    /\ AgBecome(AgExecuteWithLLM(AgNow))

\* validate_input raises
AgValidateInputRaise ==
    /\ agRun.pc = "validate_input"
    /\ AgBecome(AgExcept(AgNow, "InputGuardrailViolation"))

\* Variant: a stopped agent drops the response and execute returns at once
AgLLMReturn_stopped(response) ==
    /\ agRun.pc = "llm"
    /\ AgBecome(IF agRun.stopped
                THEN [AgNow EXCEPT !.run.pc = "done", !.run.outcome = "returned"]
                ELSE AgAfterLLM(AgNow, response))

\* The LLM client returns
AgLLMReturn(response) ==
    /\ agRun.pc = "llm"
    /\ AgBecome(AgAfterLLM(AgNow, response))

\* The LLM client raises
AgLLMRaise ==
    /\ agRun.pc = "llm"
    /\ AgBecome(AgExcept(AgNow, "LLMError"))

\* validate_output returns the result, "potentially modified"
AgValidateOutputReturn(result) ==
    /\ agRun.pc = "validate_output"
    /\ AgBecome(AgUpdateState(AgNow, result))

\* validate_output raises
AgValidateOutputRaise ==
    /\ agRun.pc = "validate_output"
    /\ AgBecome(AgExcept(AgNow, "OutputGuardrailViolation"))

\* An on-complete hook returns
AgCompleteHookReturn ==
    /\ agRun.pc = "complete_hook"
    /\ LET hooks == ag._on_complete_hooks
           idx == agRun.idx + 1
       IN AgBecome(IF idx > Len(hooks)
                   THEN [AgNow EXCEPT !.run.pc = "done", !.run.outcome = "returned",
                                      !.run.value = agRun.result]
                   ELSE [AgNow EXCEPT
                            !.run.idx = idx,
                            !.log = Append(@, AgEvent("on_complete", hooks[idx],
                                                           NoException, None))])

\* An on-complete hook raises
AgCompleteHookRaise ==
    /\ agRun.pc = "complete_hook"
    /\ AgBecome(AgExcept(AgNow, "CompleteHookError"))

\* An on-error hook returns: the next one, or "raise"
AgErrorHookReturn ==
    /\ agRun.pc = "error_hook"
    /\ LET hooks == hooks_in_order(ag._on_error_hooks)
           idx == agRun.idx + 1
       IN AgBecome(IF idx > Len(hooks) THEN AgRaiseToCaller(AgNow, agRun.e)
                   ELSE [AgNow EXCEPT
                            !.run.idx = idx,
                            !.log = Append(@, AgEvent("on_error", hooks[idx],
                                                           agRun.e, None))])

\* An on-error hook raises: its exception leaves execute
AgErrorHookRaise ==
    /\ agRun.pc = "error_hook"
    /\ AgBecome(AgRaiseToCaller(
                   [AgNow EXCEPT !.log = Append(@, AgEvent("on_error_raised", 0,
                                                            "ErrorHookError", None))],
                   "ErrorHookError"))

(***************************************************************************)
(*                         Properties of the Agent                         *)
(***************************************************************************)
\* The on-error hooks called so far, in the order of the calls
AgErrorCalls ==
    LET IsCall(event) == event.ev = "on_error"
    IN SelectSeq(agLog, IsCall)

\* A result was stored under last_result before the i-th event
AgStoredBefore(i) == \E k \in 1..(i - 1) : agLog[k].ev = "set"

\* An on-error hook raised
AgErrorHookRaised == \E k \in 1..Len(agLog) : agLog[k].ev = "on_error_raised"

\* What every run that reached the handler of execute has in common: the
\* status is failed (until a later stop), the on-error hooks called so far
\* are the first ones registered, in registration order, each with the
\* exception caught, and the state holds a new last_result only if it was
\* stored before the exception.
AgHandled(i) ==
    LET e == agLog[i].e
        calls == AgErrorCalls
    IN /\ ag.status = IF agRun.stopped THEN "stopped" ELSE "failed"
       /\ Len(calls) <= Len(ag._on_error_hooks)
       /\ \A j \in 1..Len(calls) :
             /\ calls[j].hook = ag._on_error_hooks[j]
             /\ calls[j].e = e
       /\ IF AgStoredBefore(i)
          THEN /\ State_get(ag.state, "last_result") = agRun.result
               /\ ag.state.version = agRun.initial.version + 1
          ELSE ag.state = agRun.initial

\* C20 as stated: when a step of execute raises (an on-start hook, a
\* guardrail violation, a missing or failing LLM client, an on-complete
\* hook), the status becomes failed, every on-error hook is called, in
\* registration order, with that exception, that exception is raised to the
\* caller, and last_result is not written unless the result had already been
\* stored.
C20_ErrorPath ==
    \A i \in 1..Len(agLog) :
       agLog[i].ev = "except" =>
          /\ AgHandled(i)
          /\ agRun.pc = "done" =>
                /\ Len(AgErrorCalls) = Len(ag._on_error_hooks)
                /\ agRun.outcome = "raised"
                /\ agRun.raised = agLog[i].e

\* C20 as amended: as above when every on-error hook returns; when an
\* on-error hook raises, the on-error hooks registered after it are not
\* called and the exception raised to the caller is the hook's.
C20_ErrorPathHooksReturn ==
    \A i \in 1..Len(agLog) :
       agLog[i].ev = "except" =>
          /\ AgHandled(i)
          /\ agRun.pc = "done" =>
                /\ agRun.outcome = "raised"
                /\ IF AgErrorHookRaised
                   THEN /\ Len(AgErrorCalls) = agRun.idx
                        /\ agRun.raised = "ErrorHookError"
                        /\ agRun.raised # agLog[i].e
                   ELSE /\ Len(AgErrorCalls) = Len(ag._on_error_hooks)
                        /\ agRun.raised = agLog[i].e

\* An on-complete hook raised after the result 2 was stored over the
\* last_result 1: hooks 2 and 1, registered in this order, were called in
\* this order with the hook's exception, which execute raised
C20_Witness ==
    /\ agRun.pc = "done"
    /\ agRun.raised = "CompleteHookError"
    /\ ag.status = "failed"
    /\ ag._on_error_hooks = <<2, 1>>
    /\ Len(AgErrorCalls) = 2
    /\ AgErrorCalls[1].hook = 2
    /\ AgErrorCalls[2].hook = 1
    /\ State_get(agRun.initial, "last_result") = 1
    /\ State_get(ag.state, "last_result") = 2

\* The output guards refused the result: last_result is the one from before
C20_WitnessNotWritten ==
    /\ agRun.pc = "done"
    /\ agRun.raised = "OutputGuardrailViolation"
    /\ ag.status = "failed"
    /\ agRun.result = 2
    /\ State_get(ag.state, "last_result") = 1
    /\ Len(AgErrorCalls) = 1

\* The first of two on-error hooks raised: the second was not called
C20_WitnessHookRaised ==
    /\ agRun.pc = "done"
    /\ agRun.raised = "ErrorHookError"
    /\ agRun.e = "RuntimeError"
    /\ ag.status = "failed"
    /\ Len(ag._on_error_hooks) = 2
    /\ Len(AgErrorCalls) = 1

\* The on-complete hooks called so far, in the order of the calls
AgCompleteCalls ==
    LET IsCall(event) == event.ev = "on_complete"
    IN SelectSeq(agLog, IsCall)

\* stop was called while execute was suspended in the LLM call and at no
\* later place of that execution nor after its end
AgStoppedInLLMOnly == agRun.stop_at = "llm"

\* C39: stop issued while execute is suspended in its LLM call does not stop
\* the execution: the result is stored under last_result, the on-complete
\* hooks run and the final status is completed, or failed when a later step
\* raises, never stopped; stop on an agent with no execution in flight
\* leaves the status stopped however often it is called.
C39_StopDuringLLM ==
    /\ (agRun.pc \in {"validate_output", "complete_hook", "error_hook", "done"}
           /\ AgStoppedInLLMOnly) =>
          /\ agRun.pc \in {"complete_hook", "done"} => ag.status \in {"completed", "failed"}
          /\ agRun.pc = "error_hook" => ag.status = "failed"
          /\ (agRun.pc = "done" /\ agRun.outcome = "returned") =>
                /\ ag.status = "completed"
                /\ \E i \in 1..Len(agLog) :
                      agLog[i].ev = "set" /\ agLog[i].result = agRun.value
                /\ State_get(ag.state, "last_result") = agRun.value
                /\ ag.state.version = agRun.initial.version + 1
                /\ Len(AgCompleteCalls) = Len(ag._on_complete_hooks)
                /\ \A j \in 1..Len(AgCompleteCalls) :
                      AgCompleteCalls[j].hook = ag._on_complete_hooks[j]
          /\ (agRun.pc = "done" /\ agRun.outcome = "raised") => ag.status = "failed"
    /\ (agRun.pc \in {"idle", "done"} /\ agRun.stopped) => ag.status = "stopped"

\* stop was called during the LLM call; the response was stored, the
\* on-complete hook ran and execute returned with status completed
C39_Witness ==
    /\ agRun.pc = "done"
    /\ agRun.stop_at = "llm"
    /\ agRun.outcome = "returned"
    /\ Len(ag._on_complete_hooks) = 1
    /\ Len(AgCompleteCalls) = 1
    /\ State_get(ag.state, "last_result") = agRun.value
    /\ ag.status = "completed"

\* stop during the LLM call, then the LLM client raised: failed
C39_WitnessFailed ==
    /\ agRun.pc = "done"
    /\ agRun.stop_at = "llm"
    /\ agRun.raised = "LLMError"
    /\ ag.status = "failed"

\* execute returned, then stop was called: stopped
C39_WitnessIdle ==
    /\ agRun.pc = "done"
    /\ agRun.outcome = "returned"
    /\ agRun.stop_at = "later"
    /\ agRun.stopped
    /\ ag.status = "stopped"

(***************************************************************************)
(*                    Agent with a GuardrailEngine                         *)
(* The engine attached to the agent is a GuardrailEngine: validate_input   *)
(* selects among its registered input guards by config.input_guards and    *)
(* runs them on the prompt.  No hook is registered.                        *)
(***************************************************************************)
\* AgentConfig.input_guards: a list of names
AgGuardInit == AgConstructed(SeqsUpTo(GuardNames, MaxNames))

\* GuardrailEngine.register_input_guard on the attached engine
AgRegisterInputGuard(guard) ==
    /\ agRun.pc = "idle"
    /\ ag._guardrail_engine
    /\ LET i == GuardIndex(ag.engine_input_guards, guard.name)
       IN ag' = [ag EXCEPT !.engine_input_guards =
                              IF i = 0 THEN Append(@, guard)
                              ELSE [@ EXCEPT ![i] = guard]]
    /\ UNCHANGED <<agRun, agLog>>

\* "validate_input(prompt, self.config.input_guards)": the guard_names argument
input_guards_none(input_guards) == [given |-> FALSE, names |-> <<>>]

input_guards_arg(input_guards) == [given |-> TRUE, names |-> input_guards]

\* _run_guards raises when a guard it runs fails the content (at once, or
\* the aggregate after the loop)
run_guards_never(guards) == FALSE

run_guards_raises(guards) == \E i \in 1..Len(guards) : ~guards[i].passed

\* GuardrailEngine.validate_input returns to execute, or raises
AgValidateInput ==
    /\ agRun.pc = "validate_input"
    /\ LET guards_to_run == select_guards(ag.engine_input_guards,
                                          input_guards_arg(ag.input_guards))
       IN AgBecome(IF run_guards_raises(guards_to_run)
                   THEN AgExcept(AgNow, "InputGuardrailViolation")
                   ELSE AgExecuteWithLLM(AgNow))

(***************************************************************************)
(*              Properties of the Agent with a GuardrailEngine             *)
(***************************************************************************)
\* The registered input guards that reject the prompt
AgRejecting == {i \in 1..Len(ag.engine_input_guards) :
                   ~ag.engine_input_guards[i].passed}

\* The LLM client is not called without validate_input having been called
\* before, and execute, when it ends, raises the guardrail violation
AgStoppedByInputGuards ==
    /\ \A i \in 1..Len(agLog) : agLog[i].ev # "complete"
    /\ agRun.pc = "done" =>
          /\ \E i \in 1..Len(agLog) : agLog[i].ev = "validate_input"
          /\ agRun.outcome = "raised"
          /\ agRun.raised = "InputGuardrailViolation"
          /\ ag.status = "failed"

\* C21 as stated: with guardrails enabled and a guardrail engine attached,
\* a prompt that a registered input guard rejects never reaches the LLM
\* client, and execute fails with the guardrail violation.
C21_RejectedPromptNotSent ==
    (ag.enable_guardrails /\ ag._guardrail_engine /\ AgRejecting # {}) =>
        AgStoppedByInputGuards

\* C21 as amended: the same for a prompt rejected by a registered input
\* guard that config.input_guards names; and whenever guardrails are enabled
\* and an engine is attached, validate_input is called before the LLM client.
C21_NamedGuardRejects ==
    /\ (/\ ag.enable_guardrails
        /\ ag._guardrail_engine
        /\ \E i \in AgRejecting :
              AgInSeq(ag.input_guards, ag.engine_input_guards[i].name)) =>
           AgStoppedByInputGuards
    /\ (ag.enable_guardrails /\ ag._guardrail_engine) =>
           \A i \in 1..Len(agLog) :
              agLog[i].ev = "complete" =>
                 \E k \in 1..(i - 1) : agLog[k].ev = "validate_input"

\* g1, which config.input_guards names after an unregistered g2, rejected
\* the prompt: execute raised the violation and the LLM client, though
\* configured, was not called
C21_Witness ==
    /\ ag.enable_guardrails
    /\ ag._guardrail_engine
    /\ ag._llm_client
    /\ ag.input_guards = <<"g2", "g1">>
    /\ Len(ag.engine_input_guards) = 1
    /\ ag.engine_input_guards[1].name = "g1"
    /\ ~ag.engine_input_guards[1].passed
    /\ agRun.pc = "done"
    /\ agRun.raised = "InputGuardrailViolation"
    /\ \A i \in 1..Len(agLog) : agLog[i].ev # "complete"

\* g1 is registered and rejects the prompt, config.input_guards is empty:
\* the LLM client was called and execute returned its result
C21_WitnessNotNamed ==
    /\ ag.enable_guardrails
    /\ ag._guardrail_engine
    /\ ag.input_guards = <<>>
    /\ AgRejecting = {1}
    /\ agRun.pc = "done"
    /\ agRun.outcome = "returned"
    /\ \E i \in 1..Len(agLog) : agLog[i].ev = "complete"

(***************************************************************************)
(*                           InMemoryVectorStore                           *)
(* A document is its id and its content; the embedding appended for a      *)
(* document, given or generated, is named after the document it was made   *)
(* for.  The similarities of a search come from random vectors: any order  *)
(* of the stored embeddings is a possible ranking.                         *)
(***************************************************************************)
VARIABLES
    vs,         \* the InMemoryVectorStore object: documents, embeddings, ids
    vsOut       \* the last search: how it ended and what it returned

vsVars == <<vs, vsOut>>

\* Number of document ids
MaxDocIds == 2
\* Number of contents a document may have
MaxContent == 2
\* Largest length of the ids list
MaxStored == 3
\* Largest length of the list given to add_documents or delete
MaxBatch == 2
\* Largest k of a search
MaxK == 2

DocIds == {"d" \o ToString(i) : i \in 1..MaxDocIds}

Documents == [id : DocIds, content : 1..MaxContent]

\* np.array(doc.embedding)
embedding(doc) == <<doc.id, doc.content>>

VSNoSearch == [outcome |-> "none", results |-> <<>>]

VSInit ==
    /\ vs = [documents |-> EmptyDict, embeddings |-> <<>>, ids |-> <<>>]
    /\ vsOut = VSNoSearch

\* del d[key]
DictDel(d, key) == [k \in DOMAIN d \ {key} |-> d[k]]

\* list.index(x) for an x that is in the list
ListIndex(list, x) ==
    CHOOSE i \in 1..Len(list) : list[i] = x /\ \A j \in 1..(i - 1) : list[j] # x

\* del list[idx]
ListDel(list, idx) ==
    [i \in 1..(Len(list) - 1) |-> IF i < idx THEN list[i] ELSE list[i + 1]]

\* InMemoryVectorStore.add_documents
RECURSIVE add_documents(_, _)
add_documents(store, documents) ==
    IF documents = <<>> THEN store
    ELSE LET doc == Head(documents)
         IN add_documents([store EXCEPT !.documents = DictSet(@, doc.id, doc),
                                        !.embeddings = Append(@, embedding(doc)),
                                        !.ids = Append(@, doc.id)],
                          Tail(documents))

\* InMemoryVectorStore.delete
RECURSIVE delete(_, _)
delete(store, ids) ==
    IF ids = <<>> THEN store
    ELSE LET doc_id == Head(ids)
         IN IF doc_id \in DOMAIN store.documents
            THEN LET idx == ListIndex(store.ids, doc_id)
                 IN delete([store EXCEPT !.documents = DictDel(@, doc_id),
                                         !.embeddings = ListDel(@, idx),
                                         !.ids = ListDel(@, idx)],
                           Tail(ids))
            ELSE delete(store, Tail(ids))

\* InMemoryVectorStore.update
update(store, document) ==
    add_documents(IF document.id \in DOMAIN store.documents
                  THEN delete(store, <<document.id>>) ELSE store,
                  <<document>>)

\* The rankings of n similarities: the orders of the positions 1..n
Rankings(n) == {r \in [1..n -> 1..n] : \A i, j \in 1..n : r[i] = r[j] => i = j}

\* _matches_filter; a filter asks for one content (None: no filter)
matches_filter(document, filter) == document.content = filter

\* InMemoryVectorStore.search for one ranking: the ids in ranked order, the
\* filter applied when one is given, the top k looked up in documents.  A
\* lookup of an id that documents does not hold raises KeyError.
search(store, ranking, k, filter) ==
    LET ranked == [i \in 1..Len(store.ids) |-> store.ids[ranking[i]]]
        Held(doc_id) == doc_id \in DOMAIN store.documents
        Matches(doc_id) == matches_filter(store.documents[doc_id], filter)
        filtered == IF filter = None THEN ranked
                    ELSE IF \A i \in 1..Len(ranked) : Held(ranked[i])
                    THEN SelectSeq(ranked, Matches)
                    ELSE <<>>
        top == SubSeq(filtered, 1, Min(k, Len(filtered)))
    IN IF filter # None /\ \E i \in 1..Len(ranked) : ~Held(ranked[i])
       THEN [outcome |-> "KeyError", results |-> <<>>]
       ELSE IF \E i \in 1..Len(top) : ~Held(top[i])
       THEN [outcome |-> "KeyError", results |-> <<>>]
       ELSE [outcome |-> "returned",
             results |-> [i \in 1..Len(top) |-> store.documents[top[i]]]]

VSAddDocuments(documents) ==
    /\ Len(vs.ids) + Len(documents) <= MaxStored
    /\ vs' = add_documents(vs, documents)
    /\ vsOut' = VSNoSearch

VSDelete(ids) ==
    /\ vs' = delete(vs, ids)
    /\ vsOut' = VSNoSearch

VSUpdate(document) ==
    /\ Len(update(vs, document).ids) <= MaxStored
    /\ vs' = update(vs, document)
    /\ vsOut' = VSNoSearch

VSSearch(k, filter) ==
    /\ \E ranking \in Rankings(Len(vs.ids)) : vsOut' = search(vs, ranking, k, filter)
    /\ UNCHANGED vs

(***************************************************************************)
(*                  Properties of the InMemoryVectorStore                  *)
(***************************************************************************)
\* C40: after any sequence of add_documents, delete and update calls, also
\* when a document is added whose id is already stored, ids and embeddings
\* have the same length as documents, every id in ids is a key of
\* documents, and search never looks up an id that has been deleted.
C40_Aligned ==
    /\ Len(vs.ids) = Cardinality(DOMAIN vs.documents)
    /\ Len(vs.embeddings) = Cardinality(DOMAIN vs.documents)
    /\ \A i \in 1..Len(vs.ids) : vs.ids[i] \in DOMAIN vs.documents
    /\ vsOut.outcome # "KeyError"

vars == <<sagaVars, cbVars, rpVars, geVars, crewVars, busVars, wfVars,
    rlVars, sessVars, dlVars, agVars, vsVars>>

(***************************************************************************)
(* One specification per component: the other components stay as           *)
(* constructed, with their smallest configuration                          *)
(***************************************************************************)
SagaIdle == SagaInit

CBIdle == CBInit /\ cbConfig = [failure_threshold |-> 1, success_threshold |-> 1,
                                timeout_seconds |-> 1]

RPIdle == RPInit /\ rpConfig = [max_attempts |-> 1, base_delay |-> 1, max_delay |-> 1,
                                backoff_strategy |-> "fixed", jitter_type |-> "none",
                                multiplier |-> 2, retry_on_result |-> FALSE]

GEIdle == GEInit /\ geConfig = [fail_fast |-> TRUE]

CrewIdle == CrewInit /\ crew.process = "sequential"

BusIdle == BusInit

WfIdle == WfInit

RLIdle == RLInit /\ rl.requests_per_minute = 0

SessIdle == SessInit /\ sess.updated_at = 0

AgIdle == AgInit /\ ag.state.data = EmptyDict /\ ~ag.enable_guardrails

VSIdle == VSInit

SagaFrame == UNCHANGED <<cbVars, rpVars, geVars, crewVars, busVars, wfVars,
    rlVars, sessVars, dlVars, agVars, vsVars>>

SagaNext ==
    \/ \E name \in SagaNames : SagaAddStep(name) /\ SagaFrame
    \/ \E ic \in {None} \cup SagaResults : SagaExecute(ic) /\ SagaFrame
    \/ \E r \in SagaResults : SagaActionReturn(r) /\ SagaFrame
    \/ SagaActionRaise /\ SagaFrame
    \/ SagaCompReturn /\ SagaFrame
    \/ SagaCompRaise /\ SagaFrame

SagaSpecInit == SagaInit /\ CBIdle /\ RPIdle /\ GEIdle /\ CrewIdle /\ BusIdle
     /\ WfIdle /\ RLIdle /\ SessIdle /\ DelayIdle /\ AgIdle /\ VSIdle

SagaSpec == SagaSpecInit /\ [][SagaNext]_vars

CBFrame == UNCHANGED <<sagaVars, rpVars, geVars, crewVars, busVars, wfVars,
    rlVars, sessVars, dlVars, agVars, vsVars>>

CBNext ==
    \/ CBCall /\ CBFrame
    \/ CBReturn /\ CBFrame
    \/ CBRaise /\ CBFrame
    \/ CBRaiseOther /\ CBFrame
    \/ CBReset /\ CBFrame
    \/ CBTick /\ CBFrame

CBSpecInit == CBInit /\ SagaIdle /\ RPIdle /\ GEIdle /\ CrewIdle /\ BusIdle
     /\ WfIdle /\ RLIdle /\ SessIdle /\ DelayIdle /\ AgIdle /\ VSIdle

CBSpec == CBSpecInit /\ [][CBNext]_vars

RPFrame == UNCHANGED <<sagaVars, cbVars, geVars, crewVars, busVars, wfVars,
    rlVars, sessVars, dlVars, agVars, vsVars>>

RPNext ==
    \/ RPExecute /\ RPFrame
    \/ \E wanted \in BOOLEAN : RPReturn(wanted) /\ RPFrame
    \/ RPRaise /\ RPFrame
    \/ RPRaiseOther /\ RPFrame
    \/ RPWake /\ RPFrame

RPSpecInit == RPInit /\ SagaIdle /\ CBIdle /\ GEIdle /\ CrewIdle /\ BusIdle
     /\ WfIdle /\ RLIdle /\ SessIdle /\ DelayIdle /\ AgIdle /\ VSIdle

RPSpec == RPSpecInit /\ [][RPNext]_vars

GEFrame == UNCHANGED <<sagaVars, cbVars, rpVars, crewVars, busVars, wfVars,
    rlVars, sessVars, dlVars, agVars, vsVars>>

GENext ==
    \/ \E guard \in Guards : GERegister(guard) /\ GEFrame
    \/ \E guard_names \in GuardNameArgs : GEValidate(guard_names) /\ GEFrame
    \/ GEGuardResult /\ GEFrame

GESpecInit == GEInit /\ SagaIdle /\ CBIdle /\ RPIdle /\ CrewIdle /\ BusIdle
     /\ WfIdle /\ RLIdle /\ SessIdle /\ DelayIdle /\ AgIdle /\ VSIdle

GESpec == GESpecInit /\ [][GENext]_vars

CrewFrame == UNCHANGED <<sagaVars, cbVars, rpVars, geVars, busVars, wfVars,
    rlVars, sessVars, dlVars, agVars, vsVars>>

CrewNext ==
    \/ \E name \in AgentNames : CrewAddAgent(name) /\ CrewFrame
    \/ \E agent \in {None} \cup AgentNames : CrewAddTask(agent) /\ CrewFrame
    \/ \E previous_result \in {None} \cup CrewResults :
          CrewKickoff(previous_result) /\ CrewFrame
    \/ \E result \in CrewResults : CrewSeqReturn(result) /\ CrewFrame
    \/ CrewSeqRaise /\ CrewFrame
    \/ \E t \in 1..MaxTasks, result \in CrewResults :
          CrewParReturn(t, result) /\ CrewFrame
    \/ \E t \in 1..MaxTasks : CrewParRaise(t) /\ CrewFrame

CrewSpecInit == CrewInit /\ SagaIdle /\ CBIdle /\ RPIdle /\ GEIdle /\ BusIdle
     /\ WfIdle /\ RLIdle /\ SessIdle /\ DelayIdle /\ AgIdle /\ VSIdle

CrewSpec == CrewSpecInit /\ [][CrewNext]_vars

BusFrame == UNCHANGED <<sagaVars, cbVars, rpVars, geVars, crewVars, wfVars,
    rlVars, sessVars, dlVars, agVars, vsVars>>

BusNext ==
    \/ \E agent_name \in BusAgents : BusSubscribe(agent_name) /\ BusFrame
    \/ \E recipient \in BusAgents : BusSend(recipient) /\ BusFrame
    \/ BusStart /\ BusFrame
    \/ BusStop /\ BusFrame
    \/ \E k \in 1..MaxStarts : BusTaskRun(k) /\ BusFrame
    \/ \E k \in 1..MaxStarts : BusGet(k) /\ BusFrame
    \/ \E k \in 1..MaxStarts : BusTimeout(k) /\ BusFrame
    \/ \E k \in 1..MaxStarts : BusHandlerReturn(k) /\ BusFrame
    \/ \E k \in 1..MaxStarts : BusHandlerRaise(k) /\ BusFrame

BusSpecInit == BusInit /\ SagaIdle /\ CBIdle /\ RPIdle /\ GEIdle /\ CrewIdle
     /\ WfIdle /\ RLIdle /\ SessIdle /\ DelayIdle /\ AgIdle /\ VSIdle

BusSpec == BusSpecInit /\ [][BusNext]_vars

WfFrame == UNCHANGED <<sagaVars, cbVars, rpVars, geVars, crewVars, busVars,
    rlVars, sessVars, dlVars, agVars, vsVars>>

WfNext ==
    \/ \E name \in WfNodes : WfAddNode(name) /\ WfFrame
    \/ \E from_node \in WfNodes, to_node \in WfNodes \cup {End} :
          WfAddEdge(from_node, to_node) /\ WfFrame
    \/ \E from_node \in WfNodes, edge_mapping \in WfMappings :
          WfAddConditionalEdge(from_node, edge_mapping) /\ WfFrame
    \/ \E node_name \in WfNodes : WfSetEntryPoint(node_name) /\ WfFrame
    \/ \E initial_state \in WfInitialStates : WfExecute(initial_state) /\ WfFrame
    \/ \E result \in WfResults, edge_key \in WfKeys :
          WfNodeReturn(result, edge_key) /\ WfFrame
    \/ \E result \in WfResults : WfConditionRaise(result) /\ WfFrame
    \/ WfNodeRaise /\ WfFrame

WfSpecInit == WfInit /\ SagaIdle /\ CBIdle /\ RPIdle /\ GEIdle /\ CrewIdle
     /\ BusIdle /\ RLIdle /\ SessIdle /\ DelayIdle /\ AgIdle /\ VSIdle

WfSpec == WfSpecInit /\ [][WfNext]_vars

RLFrame == UNCHANGED <<sagaVars, cbVars, rpVars, geVars, crewVars, busVars,
    wfVars, sessVars, dlVars, agVars, vsVars>>

RLNext ==
    \/ RLCheckRequest /\ RLFrame
    \/ \E d \in RLSteps : RLTick(d) /\ RLFrame

RLSpecInit == RLInit /\ SagaIdle /\ CBIdle /\ RPIdle /\ GEIdle /\ CrewIdle
     /\ BusIdle /\ WfIdle /\ SessIdle /\ DelayIdle /\ AgIdle /\ VSIdle

RLSpec == RLSpecInit /\ [][RLNext]_vars

SessFrame == UNCHANGED <<sagaVars, cbVars, rpVars, geVars, crewVars, busVars,
    wfVars, rlVars, dlVars, agVars, vsVars>>

SessNext ==
    \/ \E key \in SessKeys, value \in SessValues \cup {NotSerializable}, now \in utcnow :
          SessSetState(key, value, now) /\ SessFrame
    \/ \E key \in SessKeys, value \in SessValues \cup {NotSerializable}, now \in utcnow :
          SessSetUserState(key, value, now) /\ SessFrame
    \/ \E key \in SessKeys, value \in SessValues \cup {NotSerializable}, now \in utcnow :
          SessSetAppState(key, value, now) /\ SessFrame
    \/ \E key \in SessKeys, value \in SessValues \cup {NotSerializable} :
          SessSetTempState(key, value) /\ SessFrame
    \/ SessClearTempState /\ SessFrame

SessSpecInit == SessInit /\ SagaIdle /\ CBIdle /\ RPIdle /\ GEIdle /\ CrewIdle
     /\ BusIdle /\ WfIdle /\ RLIdle /\ DelayIdle /\ AgIdle /\ VSIdle

SessSpec == SessSpecInit /\ [][SessNext]_vars

DelayFrame == UNCHANGED <<sagaVars, cbVars, geVars, crewVars, busVars,
    wfVars, rlVars, sessVars, agVars, vsVars>>

DelayNext ==
    \E attempt \in 1..MaxDelayAttempt, previous_delay \in 0..MaxLongDelay :
       DelayCalculate(attempt, previous_delay) /\ DelayFrame

DelaySpecInit == DelayInit /\ SagaIdle /\ CBIdle /\ GEIdle /\ CrewIdle
     /\ BusIdle /\ WfIdle /\ RLIdle /\ SessIdle /\ AgIdle /\ VSIdle

DelaySpec == DelaySpecInit /\ [][DelayNext]_vars

AgFrame == UNCHANGED <<sagaVars, cbVars, rpVars, geVars, crewVars, busVars,
    wfVars, rlVars, sessVars, dlVars, vsVars>>

AgNext ==
    \/ AgSetLLMClient /\ AgFrame
    \/ AgSetGuardrailEngine /\ AgFrame
    \/ \E hook \in AgHooks : AgOnStart(hook) /\ AgFrame
    \/ \E hook \in AgErrorHooks : AgOnError(hook) /\ AgFrame
    \/ \E hook \in AgHooks : AgOnComplete(hook) /\ AgFrame
    \/ AgStop /\ AgFrame
    \/ AgExecute /\ AgFrame
    \/ AgStartHookReturn /\ AgFrame
    \/ AgStartHookRaise /\ AgFrame
    \/ AgValidateInputReturn /\ AgFrame
    \/ AgValidateInputRaise /\ AgFrame
    \/ \E response \in AgResults : AgLLMReturn(response) /\ AgFrame
    \/ AgLLMRaise /\ AgFrame
    \/ \E result \in AgResults : AgValidateOutputReturn(result) /\ AgFrame
    \/ AgValidateOutputRaise /\ AgFrame
    \/ AgCompleteHookReturn /\ AgFrame
    \/ AgCompleteHookRaise /\ AgFrame
    \/ AgErrorHookReturn /\ AgFrame
    \/ AgErrorHookRaise /\ AgFrame

AgSpecInit == AgInit /\ SagaIdle /\ CBIdle /\ RPIdle /\ GEIdle /\ CrewIdle
     /\ BusIdle /\ WfIdle /\ RLIdle /\ SessIdle /\ DelayIdle /\ VSIdle

AgSpec == AgSpecInit /\ [][AgNext]_vars

VSFrame == UNCHANGED <<sagaVars, cbVars, rpVars, geVars, crewVars, busVars,
    wfVars, rlVars, sessVars, dlVars, agVars>>

VSNext ==
    \/ \E documents \in SeqsUpTo(Documents, MaxBatch) :
          VSAddDocuments(documents) /\ VSFrame
    \/ \E ids \in SeqsUpTo(DocIds, MaxBatch) : VSDelete(ids) /\ VSFrame
    \/ \E document \in Documents : VSUpdate(document) /\ VSFrame
    \/ \E k \in 1..MaxK, filter \in {None} \cup (1..MaxContent) :
          VSSearch(k, filter) /\ VSFrame

VSSpecInit == VSInit /\ SagaIdle /\ CBIdle /\ RPIdle /\ GEIdle /\ CrewIdle
     /\ BusIdle /\ WfIdle /\ RLIdle /\ SessIdle /\ DelayIdle /\ AgIdle

VSSpec == VSSpecInit /\ [][VSNext]_vars

AgGuardNext ==
    \/ AgSetLLMClient /\ AgFrame
    \/ AgSetGuardrailEngine /\ AgFrame
    \/ \E guard \in Guards : AgRegisterInputGuard(guard) /\ AgFrame
    \/ AgExecute /\ AgFrame
    \/ AgValidateInput /\ AgFrame
    \/ \E response \in AgResults : AgLLMReturn(response) /\ AgFrame
    \/ AgLLMRaise /\ AgFrame
    \/ \E result \in AgResults : AgValidateOutputReturn(result) /\ AgFrame
    \/ AgValidateOutputRaise /\ AgFrame

AgGuardSpecInit == AgGuardInit /\ SagaIdle /\ CBIdle /\ RPIdle /\ GEIdle
     /\ CrewIdle /\ BusIdle /\ WfIdle /\ RLIdle /\ SessIdle /\ DelayIdle
     /\ VSIdle

AgGuardSpec == AgGuardSpecInit /\ [][AgGuardNext]_vars

\* The life of a session up to and after close(), with one key and one value
SessCloseNext ==
    \/ \E value \in SessValues, now \in utcnow :
          SessSetState(<<"a">>, value, now) /\ SessFrame
    \/ \E value \in SessValues, now \in utcnow :
          SessSetUserState(<<"a">>, value, now) /\ SessFrame
    \/ \E value \in SessValues, now \in utcnow :
          SessSetAppState(<<"a">>, value, now) /\ SessFrame
    \/ \E event \in SessValues, now \in utcnow : SessAddEvent(event, now) /\ SessFrame
    \/ \E artifact \in SessValues, now \in utcnow :
          SessAddArtifact(artifact, now) /\ SessFrame
    \/ \E now \in utcnow : SessClose(now) /\ SessFrame

SessCloseSpec == SessSpecInit /\ [][SessCloseNext]_vars

\* Scoped sets with a plain key and a key that carries a prefix itself
ScopeKeys == {<<"a">>, <<"user:", "a">>}

ScopeNext ==
    \/ \E key \in ScopeKeys, value \in 1..MaxScopeValue :
          SessSetState(key, value, sess.updated_at) /\ SessFrame
    \/ \E key \in ScopeKeys, value \in 1..MaxScopeValue :
          SessSetUserState(key, value, sess.updated_at) /\ SessFrame
    \/ \E value \in 1..MaxScopeValue :
          SessSetAppState(<<"a">>, value, sess.updated_at) /\ SessFrame
    \/ \E value \in 1..MaxScopeValue :
          SessSetTempState(<<"a">>, value) /\ SessFrame

ScopeSpec == SessSpecInit /\ [][ScopeNext]_vars

\* One recipient and one consume loop; start, stop and send in any order
BusStopNext ==
    \/ BusSubscribe(1) /\ BusFrame
    \/ BusSend(1) /\ BusFrame
    \/ busTasks = <<>> /\ BusStart /\ BusFrame
    \/ BusStop /\ BusFrame
    \/ BusTaskRun(1) /\ BusFrame
    \/ BusGet(1) /\ BusFrame
    \/ BusTimeout(1) /\ BusFrame
    \/ BusHandlerReturn(1) /\ BusFrame
    \/ BusHandlerRaise(1) /\ BusFrame

BusStopSpec == BusSpecInit /\ [][BusStopNext]_vars

\* One consume loop at a time: start() is called when no loop is left
BusRaiseNext ==
    \/ BusSubscribe(1) /\ BusFrame
    \/ BusSend(1) /\ BusFrame
    \/ (\A k \in 1..Len(busTasks) : busTasks[k].pc = "exited") /\ BusStart /\ BusFrame
    \/ BusStop /\ BusFrame
    \/ \E k \in 1..MaxStarts :
          \/ BusTaskRun(k) /\ BusFrame
          \/ BusGet(k) /\ BusFrame
          \/ BusTimeout(k) /\ BusFrame
          \/ BusHandlerReturn(k) /\ BusFrame
          \/ BusHandlerRaise(k) /\ BusFrame

BusRaiseSpec == BusSpecInit /\ [][BusRaiseNext]_vars

====
